---------------------------- MODULE Spec2Model ----------------------------
(***************************************************************************)
(* Model of the packet-lab walkthrough screen (WalkthroughModel, the       *)
(* "ProcessWorkflow" screen) of netlab: its bubbletea Update handlers, the *)
(* commands they return (each run by the runtime on its own goroutine),    *)
(* and the external lab script started by streamLabOutput and              *)
(* streamLabCleanup.                                                       *)
(*                                                                         *)
(* Text is modelled at word granularity: a line is a sequence of words, a  *)
(* blank line is the empty sequence, an output is a sequence of lines and  *)
(* strings.Contains is "is a contiguous run of words of".                  *)
(***************************************************************************)
EXTENDS Integers, Sequences, FiniteSets, TLC

\* Number of runs (presses of r or c that launch) explored in one behaviour.
MaxRuns == 2

\* Longest output, in lines, handed to the failure classifier on its own.
MaxSigLines == 2

\* Number of times Check Again is activated in one run of the gate.
MaxRechecks == 1

\* Number of tools whose version check does not succeed in one probe.
MaxFaulty == 2

\* Number of exports of the output log requested in one behaviour.
MaxExports == 1

\* Number of scroll positions below the top of the explorer's detail pane.
MaxScroll == 2

\* Number of runs launched in one walkthrough started from the explorer.
LabRuns == 1

\* Number of not-finished output messages delivered while one script runs.
MaxStreamed == 3

VARIABLES
    labReady,       \* WalkthroughModel.labReady
    labRunning,     \* WalkthroughModel.labRunning
    labError,       \* WalkthroughModel.labError (a line; << >> is "")
    labProgress,    \* WalkthroughModel.labProgress
    labOutput,      \* WalkthroughModel.labOutput
    showLabSetup,   \* WalkthroughModel.showLabSetup
    quit,           \* tea.Quit has been returned: the program has exited
    status,         \* the checkLabStatus command started by Init
    run,            \* the runs launched so far: commands, child process, message
    nRuns,          \* number of runs launched
    scriptExists,   \* ./scripts/k8s_lab.sh exists
    artifact,       \* modules/01-osi-model/assets/https-nginx.pcap exists
    lastEvent,      \* the step taken last
    cls,            \* parseLabError applied to one output: input and report
    moduleID,       \* dependencyCheckModel.moduleID
    dependencies,   \* dependencyCheckModel.dependencies
    missingDeps,    \* dependencyCheckModel.missingDeps
    allGood,        \* dependencyCheckModel.allGood
    showingGuide,   \* dependencyCheckModel.showingGuide
    guideContent,   \* the content of dependencyCheckModel.viewport
    selectedButton, \* dependencyCheckModel.selectedButton
    result,         \* dependencyCheckModel.result
    done,           \* dependencyCheckModel.done
    probes,         \* the calls of CheckModuleDependencies: the first, the rechecks
    ctl,            \* where RunModuleWithDependencyCheck is
    gateEvent,      \* the step of the gate taken last
    uname,          \* what `uname -s` prints on this machine
    screen,         \* which tea.Program of `netlab start` is running
    width,          \* width of the running program's model
    height,         \* height of the running program's model
    ready,          \* Model.ready / WalkthroughModel.ready
    menuIndex,      \* enhancedModel.list: index of the selected item
    choice,         \* enhancedModel.choice
    quitting,       \* enhancedModel.quitting / Model.quitting
    listIndex,      \* Model.list: index of the selected item
    selectedLayer,  \* Model.selectedLayer: the Number of the layer it points to
    showMnemonic,   \* Model.showMnemonic
    vp,             \* Model.viewport: whose details it holds, and YOffset
    advanceToLab,   \* Model.advanceToLab
    navEvent,       \* the step of the menu or the explorer taken last
    openedAt,       \* the selection and YOffset when the mnemonic overlay was opened
    currentIdx,     \* WalkthroughModel.currentIdx
    exports,        \* the exportLogs commands started so far
    files,          \* the files under logs/, by time stamp
    layers          \* WalkthroughModel.layers, by OSI layer number

walkVars == <<labReady, labRunning, labError, labProgress, labOutput, showLabSetup,
              quit, status, run, nRuns, scriptExists, artifact, lastEvent>>

gateVars == <<moduleID, dependencies, missingDeps, allGood, showingGuide, guideContent,
              selectedButton, result, done, probes, ctl, gateEvent, uname>>

navVars == <<screen, width, height, ready, menuIndex, choice, quitting, listIndex,
             selectedLayer, showMnemonic, vp, advanceToLab, navEvent, openedAt>>

labVars == <<currentIdx, exports, files, layers>>

rest == <<navVars, labVars>>

\* What the launch, status and run steps of the walkthrough screen never touch.
others == <<cls, gateVars, rest>>

vars == <<walkVars, cls, gateVars, rest>>

model == <<labReady, labRunning, labError, labProgress, labOutput, showLabSetup>>

env == <<scriptExists, artifact>>

-----------------------------------------------------------------------------
(* Text *)

Blank == << >>

\* strings.ToLower on one word: the capitalised words the outputs below use.
LowerWord(w) ==
    CASE w = "Checking" -> "checking"
      [] w = "Docker"   -> "docker"
      [] w = "Creating" -> "creating"
      [] w = "Kind"     -> "kind"
      [] w = "Permission" -> "permission"
      [] OTHER -> w

ToLower(line) == [i \in DOMAIN line |-> LowerWord(line[i])]

\* strings.Contains(line, pat)
Contains(line, pat) ==
    \E i \in 1..(Len(line) - Len(pat) + 1) : SubSeq(line, i, i + Len(pat) - 1) = pat

\* strings.Contains on a whole output: no pattern of the program holds a newline.
OutContains(out, pat) == \E i \in DOMAIN out : Contains(out[i], pat)

OutToLower(out) == [i \in DOMAIN out |-> ToLower(out[i])]

RECURSIVE Reverse(_)
Reverse(q) == IF q = << >> THEN << >> ELSE Append(Reverse(Tail(q)), Head(q))

\* The kept lines, newest first.
NonEmptyLines_Reversed(lines) == Reverse(SelectSeq(lines, LAMBDA l : l # Blank))

\* The lines kept by: if strings.TrimSpace(line) != ""
NonEmptyLines(lines) == SelectSeq(lines, LAMBDA l : l # Blank)


-----------------------------------------------------------------------------
(* Progress markers and failure classification *)

\* parseProgressFromOutput: the first marker, in the order of the switch, that
\* the lower-cased line contains; 0 when it contains none.
parseProgressFromOutput(line) ==
    LET lower == ToLower(line)
        has(pat) == Contains(lower, pat)
    IN  IF has(<<"checking", "prerequisites">>) \/ has(<<"checking", "docker">>) THEN 5
        ELSE IF has(<<"creating", "kind", "cluster">>) THEN 15
        ELSE IF has(<<"kind", "cluster">>) /\ has(<<"created", "successfully">>) THEN 30
        ELSE IF has(<<"deploying", "nginx">>) THEN 40
        ELSE IF has(<<"nginx", "deployed", "successfully">>) THEN 55
        ELSE IF has(<<"deploying", "busybox">>) THEN 65
        ELSE IF has(<<"busybox", "pod", "deployed", "successfully">>) THEN 75
        ELSE IF has(<<"setting", "up", "packet", "capture">>)
                \/ has(<<"installing", "tcpdump">>) THEN 80
        ELSE IF has(<<"starting", "packet", "capture">>) THEN 85
        ELSE IF has(<<"making", "http", "request">>) THEN 90
        ELSE IF has(<<"copying", "packet", "capture">>)
                \/ has(<<"packet", "capture", "saved">>) THEN 95
        ELSE IF has(<<"lab", "setup", "completed">>)
                \/ (has(<<"success">>) /\ has(<<"capture">>)) THEN 100
        ELSE 0

\* The errors exec.Cmd.CombinedOutput returns: nil, an *exec.ExitError
\* ("exit status 1"), or a failure to start the script at all.
ErrNil == << >>
ErrExit == <<"exit", "status", "1">>
ErrSpawn == <<"fork/exec", "./scripts/k8s_lab.sh:", "exec", "format", "error">>

\* parseLabError with the disk check moved in front of the network check.
parseLabError_DiskFirst(output, err) ==
    LET lower == OutToLower(output)
        has(pat) == OutContains(lower, pat)
        report(u, t) == [userError |-> u, troubleshooting |-> <<t>>]
    IN  IF has(<<"docker">>) /\ (has(<<"not", "found">>) \/ has(<<"command", "not", "found">>))
        THEN report(<<"Docker", "is", "not", "installed">>, <<"Please", "install", "Docker:">>)
        ELSE IF has(<<"docker">>) /\ (has(<<"permission", "denied">>) \/ has(<<"cannot", "connect">>))
        THEN report(<<"Docker", "connection", "issue">>,
                    <<"The", "lab", "script", "will", "attempt", "to", "start", "Docker">>)
        ELSE IF has(<<"docker", "is", "not", "running">>) /\ has(<<"attempting", "to", "start">>)
        THEN report(<<"Starting", "Docker">>, <<"Docker", "is", "being", "started">>)
        ELSE IF has(<<"waiting", "for", "docker">>)
        THEN report(<<"Docker", "is", "starting">>, <<"Please", "wait">>)
        ELSE IF has(<<"docker", "failed", "to", "start">>)
        THEN report(<<"Docker", "startup", "failed">>, <<"Docker", "could", "not", "be", "started">>)
        ELSE IF has(<<"kind">>) /\ has(<<"not", "found">>)
        THEN report(<<"kind", "is", "not", "installed">>, <<"Please", "install", "kind:">>)
        ELSE IF has(<<"kubectl">>) /\ has(<<"not", "found">>)
        THEN report(<<"kubectl", "is", "not", "installed">>, <<"Please", "install", "kubectl:">>)
        ELSE IF has(<<"tcpdump">>) /\ has(<<"not", "found">>)
        THEN report(<<"tcpdump", "is", "not", "installed">>, <<"Please", "install", "tcpdump:">>)
        ELSE IF has(<<"tshark">>) /\ has(<<"not", "found">>)
        THEN report(<<"tshark", "is", "not", "installed">>, <<"Please", "install", "Wireshark">>)
        ELSE IF has(<<"creating", "cluster">>) /\ has(<<"failed">>)
        THEN report(<<"Failed", "to", "create", "kind", "cluster">>, <<"This", "usually", "means:">>)
        ELSE IF has(<<"no", "space", "left">>) \/ has(<<"disk", "full">>)
        THEN report(<<"Insufficient", "disk", "space">>, <<"Please:">>)
        ELSE IF has(<<"network">>) /\ (has(<<"unreachable">>) \/ has(<<"timeout">>))
        THEN report(<<"Network", "connectivity", "issue">>, <<"This", "usually", "means:">>)
        ELSE IF has(<<"permission", "denied">>) /\ ~has(<<"docker">>)
        THEN report(<<"Permission", "denied">>, <<"This", "usually", "means:">>)
        ELSE IF OutContains(output, <<"exit", "status">>) \/ Contains(err, <<"exit", "status">>)
        THEN report(<<"Lab", "setup", "script", "failed">>,
                    <<"The", "setup", "script", "encountered", "an", "error.">>)
        ELSE report(<<"Lab", "setup", "failed:">> \o err, <<"Try:">>)

\* parseLabError: (userError, troubleshooting) of the first signature, in the
\* order of the function, that the lower-cased output matches.  Each
\* troubleshooting text is abbreviated to its first line.
parseLabError(output, err) ==
    LET lower == OutToLower(output)
        has(pat) == OutContains(lower, pat)
        report(u, t) == [userError |-> u, troubleshooting |-> <<t>>]
    IN  IF has(<<"docker">>) /\ (has(<<"not", "found">>) \/ has(<<"command", "not", "found">>))
        THEN report(<<"Docker", "is", "not", "installed">>, <<"Please", "install", "Docker:">>)
        ELSE IF has(<<"docker">>) /\ (has(<<"permission", "denied">>) \/ has(<<"cannot", "connect">>))
        THEN report(<<"Docker", "connection", "issue">>,
                    <<"The", "lab", "script", "will", "attempt", "to", "start", "Docker">>)
        ELSE IF has(<<"docker", "is", "not", "running">>) /\ has(<<"attempting", "to", "start">>)
        THEN report(<<"Starting", "Docker">>, <<"Docker", "is", "being", "started">>)
        ELSE IF has(<<"waiting", "for", "docker">>)
        THEN report(<<"Docker", "is", "starting">>, <<"Please", "wait">>)
        ELSE IF has(<<"docker", "failed", "to", "start">>)
        THEN report(<<"Docker", "startup", "failed">>, <<"Docker", "could", "not", "be", "started">>)
        ELSE IF has(<<"kind">>) /\ has(<<"not", "found">>)
        THEN report(<<"kind", "is", "not", "installed">>, <<"Please", "install", "kind:">>)
        ELSE IF has(<<"kubectl">>) /\ has(<<"not", "found">>)
        THEN report(<<"kubectl", "is", "not", "installed">>, <<"Please", "install", "kubectl:">>)
        ELSE IF has(<<"tcpdump">>) /\ has(<<"not", "found">>)
        THEN report(<<"tcpdump", "is", "not", "installed">>, <<"Please", "install", "tcpdump:">>)
        ELSE IF has(<<"tshark">>) /\ has(<<"not", "found">>)
        THEN report(<<"tshark", "is", "not", "installed">>, <<"Please", "install", "Wireshark">>)
        ELSE IF has(<<"creating", "cluster">>) /\ has(<<"failed">>)
        THEN report(<<"Failed", "to", "create", "kind", "cluster">>, <<"This", "usually", "means:">>)
        ELSE IF has(<<"network">>) /\ (has(<<"unreachable">>) \/ has(<<"timeout">>))
        THEN report(<<"Network", "connectivity", "issue">>, <<"This", "usually", "means:">>)
        ELSE IF has(<<"permission", "denied">>) /\ ~has(<<"docker">>)
        THEN report(<<"Permission", "denied">>, <<"This", "usually", "means:">>)
        ELSE IF has(<<"no", "space", "left">>) \/ has(<<"disk", "full">>)
        THEN report(<<"Insufficient", "disk", "space">>, <<"Please:">>)
        ELSE IF OutContains(output, <<"exit", "status">>) \/ Contains(err, <<"exit", "status">>)
        THEN report(<<"Lab", "setup", "script", "failed">>,
                    <<"The", "setup", "script", "encountered", "an", "error.">>)
        ELSE report(<<"Lab", "setup", "failed:">> \o err, <<"Try:">>)

-----------------------------------------------------------------------------
(* The messages of the screen *)

\* labOutputMsg{output, progress, finished, error, success}
LabOutputMsg(output, progress, finished, error, success) ==
    [output |-> output, progress |-> progress, finished |-> finished,
     error |-> error, success |-> success]

NoMsg == LabOutputMsg(<< >>, 0, FALSE, Blank, FALSE)

ScriptNotFoundError == <<"Lab", "script", "not", "found", "in", "expected", "location">>

\* The missing-script message, reported as a success.
NotFoundMsg_Success(mode) ==
    LabOutputMsg(<< <<"Lab", "script", "not", "found">> >>, 0, TRUE, Blank, TRUE)

\* The message both stream commands return when os.Stat of the script reports
\* that it does not exist.
NotFoundMsg(mode) ==
    LabOutputMsg(<< <<"Lab", "script", "not", "found">>, Blank,
                    <<"The", mode, "script", "./scripts/k8s_lab.sh", "was", "not", "found.">> >>,
                 0, TRUE, ScriptNotFoundError, FALSE)

\* streamLabOutput without the os.Stat of the capture file: exit 0 is success.
SetupResultMsg_IgnoreArtifact(output, err, artifactNow) ==
    IF err # ErrNil
    THEN LET rep == parseLabError(output, err)
         IN  LabOutputMsg(<<rep.userError, Blank>> \o rep.troubleshooting
                              \o <<Blank, <<"Raw", "output:">> >> \o output,
                          0, TRUE, rep.userError, FALSE)
    ELSE LabOutputMsg(output, 100, TRUE, Blank, TRUE)

\* streamLabOutput after CombinedOutput has returned (output, err); artifactNow
\* is the result of the os.Stat of the capture file made when err is nil.
SetupResultMsg(output, err, artifactNow) ==
    IF err # ErrNil
    THEN LET rep == parseLabError(output, err)
         IN  LabOutputMsg(<<rep.userError, Blank>> \o rep.troubleshooting
                              \o <<Blank, <<"Raw", "output:">> >> \o output,
                          0, TRUE, rep.userError, FALSE)
    ELSE LabOutputMsg(output, 100, TRUE, Blank, artifactNow)

\* streamLabCleanup after CombinedOutput has returned (output, err).
CleanupResultMsg(output, err) ==
    IF err # ErrNil
    THEN LabOutputMsg(<< <<"Cleanup", "completed", "with", "warnings:">>, Blank>> \o output,
                      100, TRUE, Blank, TRUE)
    ELSE LabOutputMsg(output, 100, TRUE, Blank, TRUE)

ResultMsg(mode, output, err, artifactNow) ==
    IF mode = "setup" THEN SetupResultMsg(output, err, artifactNow)
    ELSE CleanupResultMsg(output, err)

-----------------------------------------------------------------------------
(* Runs: the commands of one launch and its child process *)

Runs == 1..MaxRuns

\* pc of a run: "idle" (not launched), "start" (runLabSetup / runLabCleanup is
\* in flight and its start message not yet handled), "stream" (streamLabOutput /
\* streamLabCleanup is in flight and has not yet looked for the script), "child"
\* (the command is blocked in CombinedOutput: the script is executing), "msg"
\* (the command has returned its labOutputMsg, not yet handled), "done" (Update
\* has handled the finished message).  out, err, artifactAtExit and msg are what
\* the command holds between the exit of the script and the handling of its
\* message; phase, lineEvents and finalEvents record what Update did for the run.
IdleRun ==
    [mode |-> "none", pc |-> "idle", spawned |-> FALSE, out |-> << >>, err |-> ErrNil,
     artifactAtExit |-> FALSE, msg |-> NoMsg, phase |-> "NotStarted",
     lineEvents |-> 0, finalEvents |-> 0]

\* What the lab script can print (combined stdout and stderr), as lines.
Outputs ==
    { << >>,
      << <<"checking", "prerequisites", "...">>,
         <<"creating", "kind", "cluster", "...">>,
         <<"lab", "setup", "completed">> >>,
      << <<"Checking", "Docker">>, Blank, <<"hello">> >>,
      << <<"docker:", "command", "not", "found">>, <<"docker">> >>,
      << <<"creating", "kind", "cluster", "...">>, <<"Permission", "denied">> >> }

\* The outcomes of cmd.CombinedOutput once the script has been started.
ExitErrs == {ErrNil, ErrExit}

Event(type, r, launched) == [type |-> type, run |-> r, launched |-> launched]

-----------------------------------------------------------------------------
(* The other parts of the program, at rest *)

NoReport == [userError |-> Blank, troubleshooting |-> << >>]

ClsRest == cls = [pc |-> "rest", out |-> << >>, err |-> ErrNil, report |-> NoReport]

GateEvent(type, action) == [type |-> type, action |-> action]

GateRest ==
    /\ moduleID = "none"
    /\ dependencies = << >>
    /\ missingDeps = << >>
    /\ allGood = TRUE
    /\ showingGuide = FALSE
    /\ guideContent = << >>
    /\ selectedButton = 0
    /\ result = "CheckContinue"
    /\ done = FALSE
    /\ probes = << >>
    /\ ctl = "rest"
    /\ gateEvent = GateEvent("rest", "none")
    /\ uname = "Linux"

NavEvent(type, key) == [type |-> type, key |-> key]

\* What was in effect when the mnemonic overlay was opened over the rendered
\* explorer; NotOpened while it is closed and when it was opened unseen.
OpenedAt(i, y) == [open |-> TRUE, listIndex |-> i, YOffset |-> y]
NotOpened == [open |-> FALSE, listIndex |-> 0, YOffset |-> 0]

NavRest ==
    /\ screen = "rest"
    /\ width = 0 /\ height = 0 /\ ready = FALSE
    /\ menuIndex = 0 /\ choice = "" /\ quitting = FALSE
    /\ listIndex = 0 /\ selectedLayer = 7 /\ showMnemonic = FALSE
    /\ vp = [content |-> << >>, YOffset |-> 0]
    /\ advanceToLab = FALSE
    /\ navEvent = NavEvent("rest", "none")
    /\ openedAt = NotOpened

\* getSamplePacketLayers: the five layers of the sample packet, by OSI layer
\* number.
getSamplePacketLayers == <<1, 2, 3, 4, 7>>

LoadPacketData_Parsed(pcapExists) == IF ~pcapExists THEN getSamplePacketLayers ELSE <<7>>

\* LoadPacketData: the sample layers when the capture file is missing, and
\* the sample layers as well when it exists; the error is always nil.
LoadPacketData(pcapExists) ==
    IF ~pcapExists THEN getSamplePacketLayers ELSE getSamplePacketLayers

\* NewWalkthroughModel: the sample layers, the first of them current.
LabRest ==
    currentIdx = 0 /\ exports = << >> /\ files = << >> /\ layers = getSamplePacketLayers

-----------------------------------------------------------------------------
(* Init: NewWalkthroughModel, and WalkthroughModel.Init's checkLabStatus *)

WalkInit ==
    /\ labReady = FALSE
    /\ labRunning = FALSE
    /\ labError = Blank
    /\ labProgress = 0
    /\ labOutput = << >>
    /\ showLabSetup = FALSE
    /\ quit = FALSE
    /\ status = [pc |-> "cmd", ready |-> FALSE]
    /\ run = [r \in Runs |-> IdleRun]
    /\ nRuns = 0
    /\ scriptExists \in BOOLEAN
    /\ artifact \in BOOLEAN
    /\ lastEvent = Event("init", 0, FALSE)

\* The walkthrough screen alone: no gate, nothing being classified.
Init == WalkInit /\ ClsRest /\ GateRest /\ NavRest /\ LabRest

-----------------------------------------------------------------------------
(* Key presses *)

\* The launch keys without their guard.
CanLaunch_Always == TRUE

\* case "r": / case "c":  if !m.labRunning
CanLaunch == ~labRunning

\* case "ctrl+c", "q", "esc": return m, tea.Quit.  The program exits; nothing
\* signals or waits for the goroutine blocked in CombinedOutput or its child.
KeyQuit ==
    /\ ~quit
    /\ quit' = TRUE
    /\ lastEvent' = Event("key_q", 0, FALSE)
    /\ UNCHANGED <<model, status, run, nRuns, env, others>>

Launch(mode) ==
    [IdleRun EXCEPT !.mode = mode, !.pc = "start", !.phase = "Streaming"]

\* case "r".  When a run is in progress the key falls through to
\* viewport.Update, whose key map has no binding for "r".
KeyR ==
    /\ ~quit
    /\ CanLaunch => nRuns < MaxRuns
    /\ IF CanLaunch
       THEN /\ labRunning' = TRUE
            /\ labError' = Blank
            /\ showLabSetup' = TRUE
            /\ labProgress' = 0
            /\ labOutput' = << >>
            /\ labReady' = FALSE
            /\ nRuns' = nRuns + 1
            /\ run' = [run EXCEPT ![nRuns + 1] = Launch("setup")]
            /\ lastEvent' = Event("key_r", nRuns + 1, TRUE)
       ELSE /\ lastEvent' = Event("key_r", 0, FALSE)
            /\ UNCHANGED <<model, run, nRuns>>
    /\ UNCHANGED <<quit, status, env, others>>

\* case "c"
KeyC ==
    /\ ~quit
    /\ CanLaunch => nRuns < MaxRuns
    /\ IF CanLaunch
       THEN /\ labRunning' = TRUE
            /\ labError' = Blank
            /\ showLabSetup' = TRUE
            /\ labProgress' = 0
            /\ labOutput' = << >>
            /\ nRuns' = nRuns + 1
            /\ run' = [run EXCEPT ![nRuns + 1] = Launch("cleanup")]
            /\ lastEvent' = Event("key_c", nRuns + 1, TRUE)
            /\ UNCHANGED labReady
       ELSE /\ lastEvent' = Event("key_c", 0, FALSE)
            /\ UNCHANGED <<model, run, nRuns>>
    /\ UNCHANGED <<quit, status, env, others>>

-----------------------------------------------------------------------------
(* The initial status check *)

\* checkLabStatus: os.Stat of the capture file, on the command's goroutine.
CheckLabStatus ==
    /\ ~quit
    /\ status.pc = "cmd"
    /\ status' = [pc |-> "msg", ready |-> artifact]
    /\ lastEvent' = Event("checkLabStatus", 0, FALSE)
    /\ UNCHANGED <<model, quit, run, nRuns, env, others>>

\* case labStatusMsg
UpdateLabStatusMsg ==
    /\ ~quit
    /\ status.pc = "msg"
    /\ labRunning' = FALSE
    /\ labReady' = status.ready
    /\ labError' = Blank
    /\ status' = [status EXCEPT !.pc = "done"]
    /\ layers' = IF status.ready THEN LoadPacketData(artifact) ELSE layers
    /\ lastEvent' = Event("labStatusMsg", 0, FALSE)
    /\ UNCHANGED <<labProgress, labOutput, showLabSetup, quit, run, nRuns, env, cls, gateVars,
                   navVars, currentIdx, exports, files>>

-----------------------------------------------------------------------------
(* Start messages *)

StartLines(first) ==
    << first, <<"Working", "directory:", "wd">>,
       IF scriptExists THEN <<"Found", "lab", "script:", "./scripts/k8s_lab.sh">>
       ELSE <<"Lab", "script", "not", "found:", "./scripts/k8s_lab.sh">> >>

SetupStartLine == <<"Starting", "lab", "setup", "...">>
CleanupStartLine == <<"Starting", "lab", "cleanup", "...">>

\* case labSetupStartMsg / case labCleanupStartMsg: the handler returns the
\* stream command of the run.
UpdateLabStartMsg(r) ==
    /\ ~quit
    /\ run[r].pc = "start"
    /\ labProgress' = 0
    /\ labOutput' = labOutput \o StartLines(IF run[r].mode = "setup" THEN SetupStartLine
                                            ELSE CleanupStartLine)
    /\ run' = [run EXCEPT ![r].pc = "stream"]
    /\ lastEvent' = Event(IF run[r].mode = "setup" THEN "labSetupStartMsg"
                          ELSE "labCleanupStartMsg", r, FALSE)
    /\ UNCHANGED <<labReady, labRunning, labError, showLabSetup, quit, status, nRuns, env, others>>

-----------------------------------------------------------------------------
(* streamLabOutput / streamLabCleanup, on the command's goroutine *)

\* The os.Stat of the script, then exec.Command(...).CombinedOutput(): either
\* the script is missing and the command returns at once, or the script starts,
\* or starting it fails and CombinedOutput returns the error with no output.
StreamBegin(r) ==
    /\ ~quit
    /\ run[r].pc = "stream"
    /\ IF ~scriptExists
       THEN run' = [run EXCEPT ![r].pc = "msg", ![r].msg = NotFoundMsg(run[r].mode)]
       ELSE \/ run' = [run EXCEPT ![r].pc = "child", ![r].spawned = TRUE]
            \/ run' = [run EXCEPT ![r].pc = "msg", ![r].err = ErrSpawn,
                                  ![r].msg = ResultMsg(run[r].mode, << >>, ErrSpawn, artifact)]
    /\ lastEvent' = Event("stream", r, FALSE)
    /\ UNCHANGED <<model, quit, status, nRuns, env, others>>

\* The script exits: CombinedOutput returns everything it printed and its exit
\* status; the script may have created or removed the capture file.  The
\* command then builds its single message.
ChildExit(r) ==
    /\ ~quit
    /\ run[r].pc = "child"
    /\ \E out \in Outputs, err \in ExitErrs, art \in BOOLEAN :
          /\ artifact' = art
          /\ run' = [run EXCEPT ![r].pc = "msg", ![r].out = out, ![r].err = err,
                                ![r].artifactAtExit = art,
                                ![r].msg = ResultMsg(run[r].mode, out, err, art)]
    /\ lastEvent' = Event("childExit", r, FALSE)
    /\ UNCHANGED <<model, quit, status, nRuns, scriptExists, others>>

-----------------------------------------------------------------------------
(* case labOutputMsg *)

\* The progress taking the value of every line, marker or not.
RaiseProgress_Overwrite(current, progress) == progress

\* if progress := parseProgressFromOutput(line); progress > m.labProgress
RaiseProgress(current, progress) == IF progress > current THEN progress ELSE current

\* The loop of the not-finished branch: every non-blank line is appended and
\* raises the progress when its marker is strictly greater.
RECURSIVE StreamLines(_, _)
StreamLines(lines, acc) ==
    IF lines = << >> THEN acc
    ELSE LET line == Head(lines)
             p == parseProgressFromOutput(line)
         IN  StreamLines(Tail(lines),
                 IF line = Blank THEN acc
                 ELSE [log |-> Append(acc.log, line),
                       progress |-> RaiseProgress(acc.progress, p)])

SuccessLine == <<"Lab", "setup", "completed", "successfully!">>

\* The model fields after Update has handled msg.
AfterLabOutputMsg(msg) ==
    IF msg.finished
    THEN IF msg.success
         THEN [labRunning |-> FALSE, labReady |-> TRUE, labError |-> Blank,
               labProgress |-> 100, labOutput |-> Append(labOutput, SuccessLine),
               showLabSetup |-> FALSE]
         ELSE [labRunning |-> FALSE, labReady |-> labReady, labError |-> msg.error,
               labProgress |-> 0, labOutput |-> labOutput \o NonEmptyLines(msg.output),
               showLabSetup |-> showLabSetup]
    ELSE LET acc == StreamLines(msg.output, [log |-> labOutput, progress |-> labProgress])
         IN  [labRunning |-> labRunning, labReady |-> labReady, labError |-> labError,
              labProgress |-> acc.progress, labOutput |-> acc.log,
              showLabSetup |-> showLabSetup]

\* The phase the handled message leaves its run in.
PhaseAfter(r, msg) ==
    IF ~msg.finished THEN run[r].phase
    ELSE IF msg.success THEN "Succeeded" ELSE "Failed"

\* The commands the handler returns for the run: none (return m, nil).
PcAfterLabOutputMsg(msg) == IF msg.finished THEN "done" ELSE "child"

UpdateLabOutputMsg(r) ==
    /\ ~quit
    /\ run[r].pc = "msg"
    /\ LET msg == run[r].msg
           after == AfterLabOutputMsg(msg)
       IN  /\ labRunning' = after.labRunning
           /\ labReady' = after.labReady
           /\ labError' = after.labError
           /\ labProgress' = after.labProgress
           /\ labOutput' = after.labOutput
           /\ showLabSetup' = after.showLabSetup
           /\ run' = [run EXCEPT ![r] =
                        [IdleRun EXCEPT
                            !.mode = run[r].mode,
                            !.spawned = run[r].spawned,
                            !.pc = PcAfterLabOutputMsg(msg),
                            !.phase = PhaseAfter(r, msg),
                            !.lineEvents = run[r].lineEvents + (IF msg.finished THEN 0 ELSE 1),
                            !.finalEvents = run[r].finalEvents + (IF msg.finished THEN 1 ELSE 0)]]
    /\ layers' = IF run[r].msg.finished /\ run[r].msg.success
                  THEN LoadPacketData(artifact) ELSE layers
    /\ lastEvent' = Event("labOutputMsg", r, FALSE)
    /\ UNCHANGED <<quit, status, nRuns, env, cls, gateVars, navVars, currentIdx, exports, files>>

-----------------------------------------------------------------------------
(* View *)

\* labSetupView: the title and status line above the output pane.
labSetupTitle ==
    IF labError # Blank THEN "Failed"
    ELSE IF labRunning THEN "InProgress"
    ELSE "Complete"

\* getLabSetupContent: the status block of the pre-run page.
getLabSetupContentStatus ==
    IF labRunning THEN "InProgress"
    ELSE IF labError # Blank THEN "Failed"
    ELSE "Instructions"

\* WalkthroughModel.View once the screen is sized: the lab setup view while
\* showLabSetup, else the layer pane, whose content is the pre-run page until
\* the lab is ready.
View ==
    IF showLabSetup THEN [pane |-> "labSetup", status |-> labSetupTitle]
    ELSE IF ~labReady THEN [pane |-> "layers", status |-> getLabSetupContentStatus]
    ELSE [pane |-> "layers", status |-> "Layers"]

-----------------------------------------------------------------------------

Next ==
    \/ KeyQuit
    \/ KeyR
    \/ KeyC
    \/ CheckLabStatus
    \/ UpdateLabStatusMsg
    \/ \E r \in Runs : UpdateLabStartMsg(r)
    \/ \E r \in Runs : StreamBegin(r)
    \/ \E r \in Runs : ChildExit(r)
    \/ \E r \in Runs : UpdateLabOutputMsg(r)

Spec == Init /\ [][Next]_vars

-----------------------------------------------------------------------------
(* parseLabError on its own: one captured output, classified once *)

\* Lines carrying the fault signatures, and lines carrying none.
SigLines ==
    { <<"docker">>,
      <<"command", "not", "found">>,
      <<"Permission", "denied">>,
      <<"kind">>,
      <<"network", "unreachable">>,
      <<"no", "space", "left">>,
      <<"Docker", "failed", "to", "start">>,
      <<"creating", "cluster", "failed">>,
      <<"waiting", "for", "docker">>,
      <<"exit", "status", "2">>,
      <<"hello">> }

RECURSIVE SeqsUpTo(_, _)
SeqsUpTo(S, n) ==
    IF n = 0 THEN { << >> }
    ELSE SeqsUpTo(S, n - 1)
            \cup { Append(q, x) : q \in { p \in SeqsUpTo(S, n - 1) : Len(p) = n - 1 }, x \in S }

ClsInputs ==
    { [pc |-> "input", out |-> out, err |-> err, report |-> NoReport] :
        out \in SeqsUpTo(SigLines, MaxSigLines), err \in {ErrExit, ErrSpawn} }

ClassifyInit ==
    /\ WalkInit /\ scriptExists /\ ~artifact
    /\ GateRest /\ NavRest /\ LabRest
    /\ cls \in ClsInputs

\* userError, troubleshooting := parseLabError(string(output), err)
Classify ==
    /\ cls.pc = "input"
    /\ cls' = [cls EXCEPT !.pc = "classified", !.report = parseLabError(cls.out, cls.err)]
    /\ UNCHANGED <<walkVars, gateVars, rest>>

ClassifyNext == Classify

ClassifySpec == ClassifyInit /\ [][ClassifyNext]_vars

-----------------------------------------------------------------------------
(* Properties *)

\* Update is handling the finished message of run r in this step.
Finishing(r) == run[r].pc = "msg" /\ run[r].msg.finished /\ run'[r].pc = "done"

\* What the step appended to the output log.
Added == SubSeq(labOutput', Len(labOutput) + 1, Len(labOutput'))

\* q ends with the lines of tail.
EndsWith(q, tail) ==
    /\ Len(q) >= Len(tail)
    /\ SubSeq(q, Len(q) - Len(tail) + 1, Len(q)) = tail

\* C1: at most one workflow child process (setup or cleanup) is running in
\* every reachable state, whatever the interleaving of key presses, the initial
\* lab-status message, the start messages and the finished messages.
C1_AtMostOneChild == Cardinality({r \in Runs : run[r].pc = "child"}) <= 1

\* C2: while a run is Streaming (labRunning), pressing r or c starts no run and
\* no child process, and leaves phase, progress, output log, last error and
\* lab readiness as they were.
C2_LaunchKeyWhileStreaming ==
    [][(labRunning /\ lastEvent'.type \in {"key_r", "key_c"})
        => UNCHANGED <<labRunning, labProgress, labOutput, labError, labReady,
                       showLabSetup, run, nRuns>>]_vars

C2_Witness ==
    /\ lastEvent.type \in {"key_r", "key_c"}
    /\ ~lastEvent.launched
    /\ labRunning
    /\ \E r \in Runs : run[r].pc = "child"

\* C3: no state is reachable in which the program has exited (quit key) and a
\* workflow child process is still running.
C3_NoOrphanAfterQuit == quit => \A r \in Runs : run[r].pc # "child"

\* C4: when the script does not exist, a launched run (setup or cleanup) gets
\* exactly one output event, which is finished and carries the "not found"
\* report; the run ends Failed with a non-empty last error; no child process
\* is spawned.
C4_MissingEntryPoint ==
    ~scriptExists =>
        /\ \A r \in Runs :
              /\ ~run[r].spawned /\ run[r].pc # "child"
              /\ run[r].pc = "msg" =>
                    /\ run[r].msg.finished /\ ~run[r].msg.success
                    /\ run[r].msg.error = ScriptNotFoundError
                    /\ run[r].lineEvents = 0 /\ run[r].finalEvents = 0
              /\ run[r].pc = "done" =>
                    /\ run[r].phase = "Failed"
                    /\ run[r].lineEvents = 0 /\ run[r].finalEvents = 1
        /\ lastEvent.type = "labOutputMsg" =>
              /\ labError = ScriptNotFoundError /\ labError # Blank
              /\ ~labRunning

C4_Witness ==
    /\ ~scriptExists
    /\ lastEvent.type = "labOutputMsg"
    /\ \E r, q \in Runs :
          /\ run[r].mode = "setup" /\ run[r].pc = "done"
          /\ run[q].mode = "cleanup" /\ run[q].pc = "done"

\* C5: a setup run ends Succeeded exactly when its child process exited with
\* code 0 and the capture file exists after the exit; with exit code 0 and no
\* capture file it ends Failed.
C5_SetupSuccessNeedsArtifact ==
    [][\A r \in Runs :
          (Finishing(r) /\ run[r].mode = "setup")
          => LET ok == run[r].spawned /\ run[r].err = ErrNil /\ run[r].artifactAtExit
             IN  /\ run'[r].phase = (IF ok THEN "Succeeded" ELSE "Failed")
                 /\ ok <=> (labReady' /\ labProgress' = 100)
                 /\ ~labRunning']_vars

\* A setup run whose script exited 0 without producing the capture file, Failed.
C5_Witness ==
    /\ lastEvent.type = "labOutputMsg"
    /\ run[lastEvent.run].mode = "setup"
    /\ run[lastEvent.run].spawned
    /\ run[lastEvent.run].phase = "Failed"
    /\ labError = Blank
    /\ labProgress = 0

\* C6: a cleanup run whose child process exits non-zero ends Succeeded with an
\* empty last error, and the output captured from that run is appended to the
\* output log as warnings.
C6_CleanupSoftFailure ==
    [][\A r \in Runs :
          (Finishing(r) /\ run[r].mode = "cleanup" /\ run[r].spawned /\ run[r].err # ErrNil)
          => /\ run'[r].phase = "Succeeded"
             /\ labError' = Blank
             /\ LET warnings == NonEmptyLines(run[r].out)
                IN  \E i \in 1..(Len(Added) - Len(warnings) + 1) :
                       SubSeq(Added, i, i + Len(warnings) - 1) = warnings]_vars

\* C7: within a run, from its launch until its finished message has been
\* handled, the progress value never decreases from one step to the next.
C7_ProgressMonotoneWithinRun ==
    [][\A r \in Runs :
          (run[r].pc \in {"start", "stream", "child", "msg"})
          => labProgress' >= labProgress]_vars

\* C8: each non-empty line the child process prints produces one not-finished
\* output event handled before the run's finished event; the finished event
\* comes once, when the process exits.
C8_OneEventPerLine ==
    [][\A r \in Runs :
          (Finishing(r) /\ run[r].spawned)
          => /\ run[r].lineEvents = Len(NonEmptyLines(run[r].out))
             /\ run'[r].finalEvents = 1]_vars

CleanRunOutput ==
    << <<"checking", "prerequisites", "...">>,
       <<"creating", "kind", "cluster", "...">>,
       <<"lab", "setup", "completed">> >>

\* C10: a setup run whose script exists, prints the three lines of the clean
\* run and exits 0 with the capture file present ends Succeeded with progress
\* 100 and the three printed lines in the output log, in that order.
C10_CleanRun ==
    [][\A r \in Runs :
          (Finishing(r) /\ run[r].mode = "setup" /\ run[r].spawned
              /\ run[r].out = CleanRunOutput /\ run[r].err = ErrNil /\ run[r].artifactAtExit)
          => /\ run'[r].phase = "Succeeded"
             /\ labProgress' = 100
             /\ \E i, j, k \in DOMAIN labOutput' :
                   /\ i < j /\ j < k
                   /\ labOutput'[i] = CleanRunOutput[1]
                   /\ labOutput'[j] = CleanRunOutput[2]
                   /\ labOutput'[k] = CleanRunOutput[3]]_vars

\* The screen shows the failure summary / the success summary (the completed
\* lab setup view, or the finished content).
RendersFailure == View.status = "Failed"
RendersSuccess == View.status \in {"Complete", "Layers"}

\* C11: once a run's finished message has been handled, the screen renders the
\* success summary exactly when the run is Succeeded and the failure summary
\* exactly when it is Failed, whatever the error text of the message.
C11_SummaryMatchesPhase ==
    (lastEvent.type = "labOutputMsg" /\ run[lastEvent.run].pc = "done")
    => /\ RendersSuccess <=> run[lastEvent.run].phase = "Succeeded"
       /\ RendersFailure <=> run[lastEvent.run].phase = "Failed"

\* C12: a run that fails (script missing, script cannot be started, non-zero
\* exit) leaves the program running on the workflow screen, which shows the
\* failure, with the r and c keys enabled again.
C12_FailureStaysOnScreen ==
    [][\A r \in Runs :
          (Finishing(r) /\ run'[r].phase = "Failed" /\ (~run[r].spawned \/ run[r].err # ErrNil))
          => /\ ~quit'
             /\ ~labRunning'
             /\ labError' # Blank
             /\ RendersFailure']_vars

\* The fault signatures as predicates on a captured output and its error.
SigHas(out, pat) == OutContains(OutToLower(out), pat)
SigNotFound(out) == SigHas(out, <<"not", "found">>)
SigDockerMissing(out) == SigHas(out, <<"docker">>) /\ SigNotFound(out)
SigDockerConnection(out) ==
    SigHas(out, <<"docker">>)
        /\ (SigHas(out, <<"permission", "denied">>) \/ SigHas(out, <<"cannot", "connect">>))
SigDaemon(out) ==
    \/ SigHas(out, <<"docker", "is", "not", "running">>) /\ SigHas(out, <<"attempting", "to", "start">>)
    \/ SigHas(out, <<"waiting", "for", "docker">>)
    \/ SigHas(out, <<"docker", "failed", "to", "start">>)
SigOtherToolMissing(out) ==
    SigNotFound(out) /\ \E t \in {"kind", "kubectl", "tcpdump", "tshark"} : SigHas(out, <<t>>)
SigCluster(out) == SigHas(out, <<"creating", "cluster">>) /\ SigHas(out, <<"failed">>)
SigNetwork(out) ==
    SigHas(out, <<"network">>) /\ (SigHas(out, <<"unreachable">>) \/ SigHas(out, <<"timeout">>))
SigPermission(out) == SigHas(out, <<"permission", "denied">>)
SigDisk(out) == SigHas(out, <<"no", "space", "left">>) \/ SigHas(out, <<"disk", "full">>)

\* The kind of fault a report names.
CategoryOf(userError) ==
    CASE userError = <<"Docker", "is", "not", "installed">> -> "DockerMissing"
      [] userError \in { <<"kind", "is", "not", "installed">>,
                         <<"kubectl", "is", "not", "installed">>, <<"tcpdump", "is", "not", "installed">>,
                         <<"tshark", "is", "not", "installed">> } -> "MissingTool"
      [] userError = <<"Docker", "connection", "issue">> -> "DockerConnection"
      [] userError \in { <<"Starting", "Docker">>, <<"Docker", "is", "starting">>,
                         <<"Docker", "startup", "failed">> } -> "Daemon"
      [] userError = <<"Failed", "to", "create", "kind", "cluster">> -> "Cluster"
      [] userError = <<"Network", "connectivity", "issue">> -> "Network"
      [] userError = <<"Permission", "denied">> -> "Permission"
      [] userError = <<"Insufficient", "disk", "space">> -> "Disk"
      [] OTHER -> "Generic"

\* The first category, in the given order, whose signature the output matches.
FirstCategory(order, matches) ==
    LET k == CHOOSE i \in DOMAIN order :
                 /\ order[i] \in matches
                 /\ \A j \in 1..(i - 1) : order[j] \notin matches
    IN  order[k]

-----------------------------------------------------------------------------
(* The dependency probe (internal/utils/diagnostics.go) *)

\* ModuleDependencies: the tools each module needs; other ids have no entry.
DeclaredModules ==
    {"01-osi-model", "02-tcp-ip", "03-subnetting", "04-routing",
     "05-k8s-networking", "06-cni", "07-service-mesh"}

ModuleDependencies(id) ==
    CASE id = "01-osi-model" -> <<"Docker", "kubectl", "kind", "tcpdump", "tshark">>
      [] id = "02-tcp-ip" -> <<"tcpdump", "tshark">>
      [] id = "03-subnetting" -> <<"ip">>
      [] id = "04-routing" -> <<"ip", "iptables">>
      [] id \in {"05-k8s-networking", "06-cni", "07-service-mesh"} -> <<"Docker", "kubectl", "kind">>
      [] OTHER -> << >>

\* diagnostics[..].installCmd: operating system -> install command, per tool.
installCmd(name, os) ==
    CASE os = "darwin" /\ name = "Docker" -> <<"brew", "install", "--cask", "docker">>
      [] os = "darwin" /\ name \in {"kubectl", "kind", "tcpdump"} -> <<"brew", "install", name>>
      [] os = "darwin" /\ name = "tshark" -> <<"brew", "install", "wireshark">>
      [] os = "linux" /\ name = "Docker" -> <<"curl", "-fsSL", "https://get.docker.com">>
      [] os = "linux" /\ name = "kubectl" -> <<"curl", "-LO", "kubectl">>
      [] os = "linux" /\ name = "kind" -> <<"curl", "-Lo", "./kind">>
      [] os = "linux" /\ name \in {"tcpdump", "tshark", "iptables"} -> <<"sudo", "apt-get", "install", name>>
      [] os = "linux" /\ name = "ip" -> <<"sudo", "apt-get", "install", "iproute2">>
      [] OTHER -> Blank

\* What running a tool's version-check command can come to: it exits with
\* status 0, its executable cannot be located, or it fails in another way.
CheckOutcomes == {"ok", "notfound", "fail"}

\* checkCommand with every failure reported as "missing".
checkCommand_AllMissing(outcome) ==
    IF outcome = "ok" THEN "ok" ELSE "missing"

\* checkCommand: the status string for the outcome of cmd.Output().
checkCommand(outcome) ==
    CASE outcome = "ok" -> "ok"
      [] outcome = "notfound" -> "missing"
      [] outcome = "fail" -> "error"

\* What `uname -s` prints on the machine ("none": it cannot be run).
Unames == {"Linux", "Darwin", "none"}

\* getOS: cmd.Run() runs uname to completion, then cmd.Output() is called on
\* the same, already started, command and returns an error.
getOS(u) ==
    LET runErr == (u = "none")
        outputErr == TRUE
        os == IF u = "Linux" THEN "linux" ELSE IF u = "Darwin" THEN "darwin" ELSE "other"
    IN  IF ~runErr /\ ~outputErr /\ os \in {"darwin", "linux"} THEN os ELSE "unknown"

\* The allGood flag with only "missing" counted against it.
allGoodOf_MissingOnly(results) ==
    \A i \in DOMAIN results : results[i].Status # "missing"

\* allGood := true; ... if status != "ok" { allGood = false }
allGoodOf(results) ==
    \A i \in DOMAIN results : results[i].Status = "ok"

\* CheckModuleDependencies(moduleID), the outcome of each version check given.
\* The field exec of an entry records that outcome; the code does not keep it.
CheckModuleDependencies(id, outcomes, u) ==
    IF id \notin DeclaredModules
    THEN [deps |-> << >>, allGood |-> TRUE]
    ELSE LET requiredDeps == ModuleDependencies(id)
             results == [i \in DOMAIN requiredDeps |->
                           LET st == checkCommand(outcomes[i])
                           IN  [Name |-> requiredDeps[i],
                                Status |-> st,
                                InstallCmd |-> IF st = "missing"
                                               THEN installCmd(requiredDeps[i], getOS(u))
                                               ELSE Blank,
                                exec |-> outcomes[i]]]
         IN  [deps |-> results, allGood |-> allGoodOf(results)]

\* for _, dep := range deps { if dep.Status != "ok" { missing = append(missing, dep) } }
FilterMissing(deps) == SelectSeq(deps, LAMBDA d : d.Status # "ok")

RECURSIVE GuideHints(_)
GuideHints(deps) ==
    IF deps = << >> THEN << >>
    ELSE (IF Head(deps).Status = "missing" /\ Head(deps).InstallCmd # Blank
          THEN << <<"*", Head(deps).Name>>, Head(deps).InstallCmd >>
          ELSE << >>) \o GuideHints(Tail(deps))

\* GetInstallationGuide(missingDeps): the lines of the guide.
GetInstallationGuide(missing, u) ==
    IF missing = << >> THEN << >>
    ELSE << <<"Installation", "Guide">>, <<"Detected", "OS:", getOS(u)>> >>
            \o GuideHints(missing)
            \o << <<"After", "installation,", "run", "the", "module", "again">> >>

-----------------------------------------------------------------------------
(* The dependency gate (internal/tui/dependency_check.go) and the controller
   (internal/modules/runner.go) *)

ModuleIDs == {"01-osi-model", "03-subnetting", "05-k8s-networking", "99-none"}

GateKeys == {"q", "esc", "left", "right", "enter", "other"}

\* One call of CheckModuleDependencies: the one NewDependencyCheck makes
\* ("initial") or one made by the command of Check Again ("recheck").
Probe(kind, pc, deps) == [kind |-> kind, pc |-> pc, deps |-> deps]

OutcomesFor(id) ==
    { f \in [DOMAIN ModuleDependencies(id) -> CheckOutcomes] :
        Cardinality({ i \in DOMAIN f : f[i] # "ok" }) <= MaxFaulty }

GateInit ==
    /\ WalkInit /\ scriptExists /\ ~artifact
    /\ ClsRest /\ NavRest /\ LabRest
    /\ moduleID \in ModuleIDs
    /\ uname \in Unames
    /\ dependencies = << >> /\ missingDeps = << >> /\ allGood = TRUE
    /\ showingGuide = FALSE /\ guideContent = << >> /\ selectedButton = 0
    /\ result = "CheckContinue" /\ done = FALSE
    /\ probes = << Probe("initial", "running", << >>) >>
    /\ ctl = "probing"
    /\ gateEvent = GateEvent("start", "none")

\* NewDependencyCheck: the probe made before the gate is shown has returned.
NewDependencyCheck ==
    /\ ctl = "probing"
    /\ probes[Len(probes)].pc = "running"
    /\ \E outcomes \in OutcomesFor(moduleID) :
         LET r == CheckModuleDependencies(moduleID, outcomes, uname)
         IN  /\ dependencies' = r.deps
             /\ missingDeps' = FilterMissing(r.deps)
             /\ allGood' = r.allGood
    /\ showingGuide' = FALSE
    /\ selectedButton' = 0
    /\ result' = "CheckContinue"
    /\ done' = FALSE
    /\ probes' = [probes EXCEPT ![Len(probes)].pc = "delivered"]
    /\ ctl' = "gate"
    /\ gateEvent' = GateEvent("probe", "initial")
    /\ UNCHANGED <<walkVars, cls, rest, moduleID, guideContent, uname>>

\* A version-check command that never exits: cmd.Output() does not return.
ProbeHang(i) ==
    /\ probes[i].pc = "running"
    /\ ctl \in {"probing", "gate"}
    /\ moduleID \in DeclaredModules
    /\ probes' = [probes EXCEPT ![i].pc = "hung"]
    /\ gateEvent' = GateEvent("hang", probes[i].kind)
    /\ UNCHANGED <<walkVars, cls, rest, moduleID, dependencies, missingDeps, allGood, showingGuide,
                   guideContent, selectedButton, result, done, ctl, uname>>

\* recheckDependencies: the command's probe has returned; its recheckMsg waits.
\* Nothing reads the message before Update does, so the statuses it carries
\* are drawn where Update handles it.
recheckDependencies(i) ==
    /\ probes[i].kind = "recheck" /\ probes[i].pc = "running"
    /\ ctl = "gate"
    /\ probes' = [probes EXCEPT ![i].pc = "returned"]
    /\ gateEvent' = GateEvent("probe", "recheck")
    /\ UNCHANGED <<walkVars, cls, rest, moduleID, dependencies, missingDeps, allGood, showingGuide,
                   guideContent, selectedButton, result, done, ctl, uname>>

\* recheckMsg{dependencies, missingDeps, allGood}, built from a probe's return.
RecheckMsg(r) ==
    [dependencies |-> r.deps, missingDeps |-> FilterMissing(r.deps), allGood |-> r.allGood]

\* updateDependencies without the reset of the selection.
updateDependencies_KeepSelection(msg, sel) ==
    [dependencies |-> msg.dependencies, missingDeps |-> msg.missingDeps,
     allGood |-> msg.allGood, selectedButton |-> sel]

\* updateDependencies(msg): the fields of the gate after it.
updateDependencies(msg, sel) ==
    [dependencies |-> msg.dependencies, missingDeps |-> msg.missingDeps,
     allGood |-> msg.allGood, selectedButton |-> 0]

\* Update, case recheckMsg.
UpdateRecheckMsg(i) ==
    /\ probes[i].kind = "recheck" /\ probes[i].pc = "returned"
    /\ ctl = "gate" /\ ~done
    /\ \E outcomes \in OutcomesFor(moduleID) :
         LET msg == RecheckMsg(CheckModuleDependencies(moduleID, outcomes, uname))
             u == updateDependencies(msg, selectedButton)
         IN  /\ dependencies' = u.dependencies
             /\ missingDeps' = u.missingDeps
             /\ allGood' = u.allGood
             /\ selectedButton' = u.selectedButton
    /\ probes' = [probes EXCEPT ![i].pc = "delivered"]
    /\ gateEvent' = GateEvent("recheckMsg", "none")
    /\ UNCHANGED <<walkVars, cls, rest, moduleID, showingGuide, guideContent, result, done, ctl, uname>>

\* renderButtons: the labels of the buttons, left to right.
renderButtons ==
    IF ~allGood THEN <<"Continue", "Install Guide", "Check Again">>
    ELSE <<"Continue", "Check Again">>

\* maxButton of the case "right".
maxButton == IF allGood THEN 1 ELSE 3

\* The switch of case "enter" with button 1 always the guide.
EnterAction_GuideAlways ==
    CASE selectedButton = 0 -> "Continue"
      [] selectedButton = 1 -> "Install Guide"
      [] selectedButton = 2 -> "Check Again"
      [] OTHER -> "none"

\* What Enter does for a value of selectedButton (the switch of case "enter").
EnterAction ==
    CASE selectedButton = 0 -> "Continue"
      [] selectedButton = 1 -> IF ~allGood THEN "Install Guide" ELSE "Check Again"
      [] selectedButton = 2 -> "Check Again"
      [] OTHER -> "none"

RechecksLaunched == Cardinality({i \in DOMAIN probes : probes[i].kind = "recheck"})

\* Update, case tea.KeyMsg.
\* The quit keys leaving the result as it stands.
QuitResult_Keep == result

\* case "ctrl+c", "q":  m.result = CheckAbort
QuitResult == "CheckAbort"

GateKey(k) ==
    /\ ctl = "gate" /\ ~done
    /\ (k = "enter" /\ ~showingGuide /\ EnterAction = "Check Again") => RechecksLaunched < MaxRechecks
    /\ IF showingGuide
       THEN /\ showingGuide' = (k \notin {"q", "esc"})
            /\ gateEvent' = GateEvent("guideKey", k)
            /\ UNCHANGED <<selectedButton, result, done, guideContent, probes>>
       ELSE CASE k = "q" ->
                   /\ result' = QuitResult /\ done' = TRUE
                   /\ gateEvent' = GateEvent("key", "Abort")
                   /\ UNCHANGED <<selectedButton, showingGuide, guideContent, probes>>
              [] k = "left" ->
                   /\ selectedButton' = IF selectedButton > 0 THEN selectedButton - 1 ELSE selectedButton
                   /\ gateEvent' = GateEvent("key", "left")
                   /\ UNCHANGED <<result, done, showingGuide, guideContent, probes>>
              [] k = "right" ->
                   /\ selectedButton' = IF selectedButton < maxButton THEN selectedButton + 1
                                        ELSE selectedButton
                   /\ gateEvent' = GateEvent("key", "right")
                   /\ UNCHANGED <<result, done, showingGuide, guideContent, probes>>
              [] k = "enter" /\ EnterAction = "Continue" ->
                   /\ result' = "CheckContinue" /\ done' = TRUE
                   /\ gateEvent' = GateEvent("enter", "Continue")
                   /\ UNCHANGED <<selectedButton, showingGuide, guideContent, probes>>
              [] k = "enter" /\ EnterAction = "Install Guide" ->
                   /\ showingGuide' = TRUE
                   /\ guideContent' = GetInstallationGuide(missingDeps, uname)
                   /\ gateEvent' = GateEvent("enter", "Install Guide")
                   /\ UNCHANGED <<selectedButton, result, done, probes>>
              [] k = "enter" /\ EnterAction = "Check Again" ->
                   /\ result' = "CheckRecheck"
                   /\ probes' = Append(probes, Probe("recheck", "running", << >>))
                   /\ gateEvent' = GateEvent("enter", "Check Again")
                   /\ UNCHANGED <<selectedButton, done, showingGuide, guideContent>>
              [] OTHER ->
                   /\ gateEvent' = GateEvent("key", "none")
                   /\ UNCHANGED <<selectedButton, result, done, showingGuide, guideContent, probes>>
    /\ UNCHANGED <<walkVars, cls, rest, moduleID, dependencies, missingDeps, allGood, ctl, uname>>

\* p.Run() of the gate returns an error (the terminal cannot be used).
GateProgramError ==
    /\ ctl = "gate" /\ ~done
    /\ ctl' = "returnedErr"
    /\ gateEvent' = GateEvent("programError", "none")
    /\ UNCHANGED <<walkVars, cls, rest, moduleID, dependencies, missingDeps, allGood, showingGuide,
                   guideContent, selectedButton, result, done, probes, uname>>

\* runModuleImplementation: which ids start a content screen.
runModuleImplementation(id) ==
    IF id \in {"01-osi-model", "01", "osi"} THEN "content" ELSE "returnedErr"

\* RunModuleWithDependencyCheck: the switch on the result of the gate.
ControllerStep ==
    /\ ctl = "gate" /\ done
    /\ CASE result = "CheckContinue" ->
              /\ ctl' = runModuleImplementation(moduleID)
              /\ UNCHANGED probes
         [] result = "CheckAbort" ->
              /\ ctl' = "returnedNil"
              /\ UNCHANGED probes
         [] result = "CheckRecheck" ->
              /\ ctl' = "probing"
              /\ probes' = << Probe("initial", "running", << >>) >>
         [] OTHER ->
              /\ ctl' = "returnedErr"
              /\ UNCHANGED probes
    /\ gateEvent' = GateEvent("controller", result)
    /\ UNCHANGED <<walkVars, cls, rest, moduleID, dependencies, missingDeps, allGood, showingGuide,
                   guideContent, selectedButton, result, done, uname>>

GateNext ==
    \/ NewDependencyCheck
    \/ \E i \in DOMAIN probes : ProbeHang(i)
    \/ \E i \in DOMAIN probes : recheckDependencies(i)
    \/ \E i \in DOMAIN probes : UpdateRecheckMsg(i)
    \/ \E k \in GateKeys : GateKey(k)
    \/ GateProgramError
    \/ ControllerStep

GateSpec == GateInit /\ [][GateNext]_vars

\* Probes run to their end when they can, and delivered results are handled.
GateFairSpec ==
    /\ GateSpec
    /\ WF_vars(NewDependencyCheck)
    /\ WF_vars(\E i \in DOMAIN probes : recheckDependencies(i))

\* The gate's View: the summary line, the rows and the buttons.
GateRow(dep) ==
    CASE dep.Status = "ok" -> <<"ok", dep.Name>>
      [] dep.Status = "missing" -> <<"x", dep.Name, "-", "Not", "found">>
      [] dep.Status = "error" -> <<"x", dep.Name, "-", "Error">>

GateView ==
    IF done THEN [screen |-> "none", missing |-> 0, rows |-> << >>, buttons |-> << >>]
    ELSE IF showingGuide
    THEN [screen |-> "guide", missing |-> 0, rows |-> guideContent, buttons |-> << >>]
    ELSE [screen |-> "check",
          missing |-> IF allGood THEN 0 ELSE Len(missingDeps),
          rows |-> [i \in DOMAIN dependencies |-> GateRow(dependencies[i])],
          buttons |-> renderButtons]

-----------------------------------------------------------------------------
(* Properties of the probe, the gate and the controller *)

\* The gate holds the result of a probe (NewDependencyCheck has returned).
Probed == ctl # "probing"

\* C14: the probe's allGood is true exactly when the version check of every
\* tool on the module's requirement list succeeded, the list it returns has one
\* entry per required tool, and a module with no declared requirements gets an
\* empty list and allGood = true.
C14_AllGoodIffAllSatisfied ==
    Probed =>
        /\ Len(dependencies) = Len(ModuleDependencies(moduleID))
        /\ \A i \in DOMAIN dependencies : dependencies[i].Name = ModuleDependencies(moduleID)[i]
        /\ allGood <=> \A i \in DOMAIN dependencies : dependencies[i].exec = "ok"
        /\ \A i \in DOMAIN dependencies : dependencies[i].exec = "ok" <=> dependencies[i].Status = "ok"
        /\ moduleID \notin DeclaredModules => dependencies = << >> /\ allGood

\* A probe with a satisfied tool and a tool whose check failed otherwise than
\* by not being found: allGood is false.
C14_Witness ==
    /\ ctl = "gate" /\ ~allGood
    /\ \E i \in DOMAIN dependencies : dependencies[i].exec = "ok"
    /\ \E i \in DOMAIN dependencies : dependencies[i].exec = "fail"
    /\ \A i \in DOMAIN dependencies : dependencies[i].exec # "notfound"

InSeq(x, q) == \E i \in DOMAIN q : q[i] = x

\* C15: an executable that cannot be located gives "missing", any other
\* failure gives "error"; either makes allGood false and puts the tool in
\* missingDeps; the row of the gate reads "Not found" for the one and "Error"
\* for the other; and the step that brings a probe's result leaves the gate
\* on screen.
C15_MissingAndError ==
    Probed =>
        /\ \A i \in DOMAIN dependencies :
             LET dep == dependencies[i]
             IN  /\ dep.exec = "notfound" => dep.Status = "missing"
                 /\ dep.exec = "fail" => dep.Status = "error"
                 /\ dep.exec # "ok" => ~allGood /\ InSeq(dep, missingDeps)
                 /\ GateView.screen = "check" =>
                      /\ dep.exec = "notfound" => GateView.rows[i] = <<"x", dep.Name, "-", "Not", "found">>
                      /\ dep.exec = "fail" => GateView.rows[i] = <<"x", dep.Name, "-", "Error">>
        /\ \A j \in DOMAIN missingDeps : missingDeps[j].exec # "ok"
        /\ gateEvent.type \in {"probe", "recheckMsg"} => ctl = "gate"

\* The result of a probe has just arrived with one tool not found and another
\* failing, and the gate shows both rows.
C15_Witness ==
    /\ gateEvent.type \in {"probe", "recheckMsg"} /\ ctl = "gate"
    /\ GateView.screen = "check"
    /\ \E i \in DOMAIN dependencies : dependencies[i].exec = "notfound"
    /\ \E i \in DOMAIN dependencies : dependencies[i].exec = "fail"

\* The operating system the platform probe reports.
DetectedOS == IF uname = "Linux" THEN "linux" ELSE IF uname = "Darwin" THEN "darwin" ELSE "unknown"

\* C16: with two tools missing and one satisfied, on darwin or linux, allGood
\* is false, the gate counts 2 missing, and the guide just opened holds the
\* install command of every missing tool that has one for that operating
\* system and none for a tool that has none.
C16_GuideHasHints ==
    ( /\ ctl = "gate"
      /\ Len(dependencies) = 3
      /\ Cardinality({i \in DOMAIN dependencies : dependencies[i].exec = "notfound"}) = 2
      /\ Cardinality({i \in DOMAIN dependencies : dependencies[i].exec = "ok"}) = 1
      /\ uname \in {"Linux", "Darwin"}
      /\ gateEvent = GateEvent("enter", "Install Guide") )
    => /\ ~allGood
       /\ Len(missingDeps) = 2
       /\ \A i \in DOMAIN dependencies :
            LET hint == installCmd(dependencies[i].Name, DetectedOS)
            IN  InSeq(hint, guideContent)
                  <=> (dependencies[i].exec = "notfound" /\ hint # Blank)

\* C17: a probe that has started returns its statuses (or the gate it works
\* for has ended).
C17_ProbeReturns ==
    \A i \in 1..(MaxRechecks + 1) :
        (i \in DOMAIN probes /\ probes[i].pc = "running")
            ~> \/ ctl \in {"content", "returnedNil", "returnedErr"}
               \/ i \in DOMAIN probes /\ probes[i].pc \in {"returned", "delivered"}

\* C18: the buttons are Continue, Check Again when allGood and Continue,
\* Install Guide, Check Again otherwise; Enter on a rendered button does what
\* that button says; and the guide opens only when some tool is unsatisfied.
C18_ButtonsAndEnter ==
    [][ (ctl = "gate" /\ ~done /\ ~showingGuide) =>
          /\ GateView.buttons = IF allGood THEN <<"Continue", "Check Again">>
                                ELSE <<"Continue", "Install Guide", "Check Again">>
          /\ (gateEvent'.type = "enter" /\ selectedButton + 1 \in DOMAIN GateView.buttons) =>
               /\ gateEvent'.action = GateView.buttons[selectedButton + 1]
               /\ gateEvent'.action = "Continue" => done' /\ result' = "CheckContinue"
               /\ gateEvent'.action = "Install Guide" => showingGuide' /\ ~done'
               /\ gateEvent'.action = "Check Again" =>
                    /\ ~done' /\ ~showingGuide'
                    /\ probes' = Append(probes, Probe("recheck", "running", << >>))
          /\ showingGuide' => ~allGood /\ gateEvent'.action = "Install Guide" ]_vars

\* Enter has just been pressed on Check Again in second place (allGood).
C18_Witness ==
    /\ gateEvent = GateEvent("enter", "Check Again")
    /\ allGood /\ selectedButton = 1
    /\ dependencies # << >>

\* C19: Enter on Check Again leaves the gate running and starts a probe; when
\* the recheckMsg is handled the statuses, the unsatisfied list and allGood are
\* those of the new probe, the selection is 0, and the gate still runs.
C19_RecheckInPlace ==
    [][ /\ gateEvent' = GateEvent("enter", "Check Again") =>
             /\ ctl' = "gate" /\ ~done'
             /\ probes'[Len(probes')] = Probe("recheck", "running", << >>)
             /\ UNCHANGED <<dependencies, missingDeps, allGood>>
        /\ gateEvent'.type = "recheckMsg" =>
             /\ ctl' = "gate" /\ ~done'
             /\ selectedButton' = 0
             /\ \E outcomes \in OutcomesFor(moduleID) :
                  dependencies' = CheckModuleDependencies(moduleID, outcomes, uname).deps
             /\ missingDeps' = FilterMissing(dependencies')
             /\ allGood' <=> \A i \in DOMAIN dependencies' : dependencies'[i].exec = "ok"
             /\ \E i \in DOMAIN probes : probes[i].pc = "returned" /\ probes'[i].pc = "delivered" ]_vars

\* A recheck's result has replaced an earlier one: all tools are now satisfied.
C19_Witness ==
    /\ gateEvent.type = "recheckMsg"
    /\ ctl = "gate" /\ ~done /\ selectedButton = 0
    /\ allGood /\ dependencies # << >> /\ missingDeps = << >>

\* C20: for a declared module, when the gate ends with Continue the controller
\* starts the content screen; with Abort it returns nil and starts none; with
\* Recheck it runs the gate again.
C20_ControllerSwitch ==
    [][ (gateEvent'.type = "controller" /\ moduleID \in DeclaredModules) =>
          /\ result = "CheckContinue" => ctl' = "content"
          /\ result = "CheckAbort" => ctl' = "returnedNil"
          /\ result = "CheckRecheck" => ctl' = "probing" ]_vars

-----------------------------------------------------------------------------
(* Export of the output log (WalkthroughModel, key "e") *)

\* strings.Join with nothing between the lines.
JoinLines_NoSeparator(lines) ==
    IF lines = << >> THEN << >>
    ELSE LET RECURSIVE flat(_)
             flat(q) == IF q = << >> THEN << >> ELSE Head(q) \o flat(Tail(q))
         IN  flat(lines)

\* strings.Join(lines, "\n"): the words of the lines, "\n" between two lines.
JoinLines(lines) ==
    IF lines = << >> THEN << >>
    ELSE LET RECURSIVE join(_)
             join(q) == IF Len(q) = 1 THEN Head(q)
                        ELSE Head(q) \o <<"\n">> \o join(Tail(q))
         IN  join(lines)

\* strings.Split(content, "\n"): what a reader of the file gets back.
RECURSIVE SplitLines(_)
SplitLines(content) ==
    IF \A i \in DOMAIN content : content[i] # "\n" THEN <<content>>
    ELSE LET k == CHOOSE i \in DOMAIN content :
                     content[i] = "\n" /\ \A j \in 1..(i - 1) : content[j] # "\n"
         IN  <<SubSeq(content, 1, k - 1)>> \o SplitLines(SubSeq(content, k + 1, Len(content)))

\* The seconds at which an export can write its file (the name of the file is
\* the time of the write to the second).
Stamps == 1..MaxExports

\* logExportMsg{success, file, error}
LogExportMsg(success, file, error) == [success |-> success, file |-> file, error |-> error]

NoExportMsg == LogExportMsg(FALSE, 0, Blank)

\* An export that reads the log where it writes the file, not where it was asked.
ExportedLines_Live(e, current) == current

\* m.labOutput of the model value the command's closure holds: the lines the
\* log had when "e" was pressed.
ExportedLines(e, current) == e.snapshot

\* case "e": if len(m.labOutput) > 0
CanExport == Len(labOutput) > 0

\* case "e"
KeyE ==
    /\ ~quit
    /\ CanExport => Len(exports) < MaxExports
    /\ IF CanExport
       THEN /\ exports' = Append(exports, [pc |-> "cmd", snapshot |-> labOutput, msg |-> NoExportMsg])
            /\ lastEvent' = Event("key_e", 0, TRUE)
       ELSE /\ exports' = exports
            /\ lastEvent' = Event("key_e", 0, FALSE)
    /\ UNCHANGED <<model, quit, status, run, nRuns, env, cls, gateVars, navVars, currentIdx, files,
                   layers>>

\* exportLogs: os.MkdirAll, then os.WriteFile of the joined lines; either can fail.
ExportRun(i) ==
    /\ ~quit
    /\ exports[i].pc = "cmd"
    /\ \E mkdirOK \in BOOLEAN, writeOK \in BOOLEAN, stamp \in Stamps :
         IF ~mkdirOK
         THEN /\ exports' = [exports EXCEPT ![i].pc = "msg",
                               ![i].msg = LogExportMsg(FALSE, 0,
                                   <<"Failed", "to", "create", "logs", "directory:">>)]
              /\ files' = files
         ELSE IF ~writeOK
         THEN /\ exports' = [exports EXCEPT ![i].pc = "msg",
                               ![i].msg = LogExportMsg(FALSE, 0,
                                   <<"Failed", "to", "write", "log", "file:">>)]
              /\ files' = files
         ELSE /\ exports' = [exports EXCEPT ![i].pc = "msg",
                               ![i].msg = LogExportMsg(TRUE, stamp, Blank)]
              /\ files' = [t \in (DOMAIN files) \cup {stamp} |->
                             IF t = stamp THEN JoinLines(ExportedLines(exports[i], labOutput))
                             ELSE files[t]]
    /\ lastEvent' = Event("exportLogs", i, FALSE)
    /\ UNCHANGED <<model, quit, status, run, nRuns, env, cls, gateVars, navVars, currentIdx, layers>>

\* The failure case of logExportMsg that also records the error as the run's.
AfterLogExportMsg_SetsError(msg) ==
    [labOutput |-> Append(labOutput,
                     IF msg.success THEN <<"Logs", "exported", "to:", msg.file>>
                     ELSE <<"Export", "failed:">> \o msg.error),
     labError |-> IF msg.success THEN labError ELSE msg.error]

\* case logExportMsg: the fields it leaves behind.
AfterLogExportMsg(msg) ==
    [labOutput |-> Append(labOutput,
                     IF msg.success THEN <<"Logs", "exported", "to:", msg.file>>
                     ELSE <<"Export", "failed:">> \o msg.error),
     labError |-> labError]

\* Update, case logExportMsg.
UpdateLogExportMsg(i) ==
    /\ ~quit
    /\ exports[i].pc = "msg"
    /\ labOutput' = AfterLogExportMsg(exports[i].msg).labOutput
    /\ labError' = AfterLogExportMsg(exports[i].msg).labError
    /\ exports' = [exports EXCEPT ![i] = [pc |-> "done", snapshot |-> << >>, msg |-> NoExportMsg]]
    /\ lastEvent' = Event("logExportMsg", i, FALSE)
    /\ UNCHANGED <<labReady, labRunning, labProgress, showLabSetup, quit, status, run, nRuns,
                   env, cls, gateVars, navVars, currentIdx, files, layers>>

ExportInit ==
    /\ WalkInit
    /\ ClsRest /\ GateRest /\ NavRest /\ LabRest

\* The outputs of the lab script followed here: none, and three lines of
\* which one is blank.
ExportOutputs == { << >>, << <<"Checking", "Docker">>, Blank, <<"hello">> >> }

ExportNext ==
    \/ Next /\ \A r \in Runs : run'[r].out \in ExportOutputs
    \/ KeyE
    \/ \E i \in DOMAIN exports : ExportRun(i)
    \/ \E i \in DOMAIN exports : UpdateLogExportMsg(i)

ExportSpec == ExportInit /\ [][ExportNext]_vars

\* The step is the write of export i, and it succeeded.
ExportWrote(i) ==
    /\ i \in DOMAIN exports /\ exports[i].pc = "cmd"
    /\ exports'[i].pc = "msg" /\ exports'[i].msg.success

\* C27: the file a successful export writes, read back and split on newlines,
\* is the sequence of lines the log had when the export was requested, in order.
C27_ExportRoundTrip ==
    [][ \A i \in 1..MaxExports :
          ExportWrote(i) =>
            /\ exports'[i].msg.file \in DOMAIN files'
            /\ SplitLines(files'[exports'[i].msg.file]) = exports[i].snapshot ]_vars

\* An export of a log of three or more lines has written its file.
C27_Witness ==
    \E i \in DOMAIN exports :
        /\ lastEvent = Event("exportLogs", i, FALSE)
        /\ exports[i].pc = "msg" /\ exports[i].msg.success
        /\ Len(exports[i].snapshot) >= 3
        /\ SplitLines(files[exports[i].msg.file]) = exports[i].snapshot

\* C28: "e" does nothing while the log is empty; with a non-empty log it starts
\* an export whatever the run phase, and what the export writes is the log as it
\* was at the key press, whatever has been appended or reset since.
C28_ExportSnapshot ==
    [][ /\ (lastEvent'.type = "key_e" /\ labOutput = << >>) =>
             /\ ~lastEvent'.launched
             /\ UNCHANGED <<model, exports, files, run, nRuns, quit>>
        /\ (lastEvent'.type = "key_e" /\ labOutput # << >>) =>
             /\ lastEvent'.launched
             /\ Len(exports') = Len(exports) + 1
             /\ exports'[Len(exports')].pc = "cmd"
             /\ exports'[Len(exports')].snapshot = labOutput
             /\ UNCHANGED <<model, files, run, nRuns, quit>>
        /\ \A i \in 1..MaxExports :
             /\ (i \in DOMAIN exports /\ i \in DOMAIN exports' /\ exports'[i].pc \in {"cmd", "msg"})
                   => exports'[i].snapshot = exports[i].snapshot
             /\ ExportWrote(i) =>
                   files'[exports'[i].msg.file] = JoinLines(exports[i].snapshot) ]_vars

\* An export requested while a run was streaming has written its file after a
\* new run reset the log: the file holds the lines of the request.
C28_Witness ==
    \E i \in DOMAIN exports :
        /\ lastEvent = Event("exportLogs", i, FALSE)
        /\ exports[i].pc = "msg" /\ exports[i].msg.success
        /\ Len(labOutput) < Len(exports[i].snapshot)
        /\ labRunning
        /\ files[exports[i].msg.file] = JoinLines(exports[i].snapshot)

\* C29: a failed export is reported by one line appended to the output log;
\* the run phase, the progress, the last error, the readiness of the lab and
\* everything else stay as they were, and the program keeps running.
C29_ExportFailureInline ==
    [][ \A i \in 1..MaxExports :
          ( /\ lastEvent' = Event("logExportMsg", i, FALSE)
            /\ i \in DOMAIN exports /\ ~exports[i].msg.success )
          => /\ labOutput' = Append(labOutput, <<"Export", "failed:">> \o exports[i].msg.error)
             /\ exports[i].msg.error \in { <<"Failed", "to", "create", "logs", "directory:">>,
                                           <<"Failed", "to", "write", "log", "file:">> }
             /\ ~quit'
             /\ \A r \in Runs : run'[r].phase = run[r].phase
             /\ UNCHANGED <<labReady, labRunning, labError, labProgress, showLabSetup,
                            quit, status, run, nRuns, currentIdx, files>> ]_vars

\* The failure of an export has just been reported while a run is streaming.
C29_Witness ==
    /\ lastEvent.type = "logExportMsg"
    /\ labRunning
    /\ labOutput # << >>
    /\ SubSeq(labOutput[Len(labOutput)], 1, 2) = <<"Export", "failed:">>
    /\ \E r \in Runs : run[r].phase = "Streaming"

-----------------------------------------------------------------------------
(* netlab start: the menu, the gate, the explorer and the walkthrough *)

\* Terminal sizes delivered by tea.WindowSizeMsg: one below the floor of 60
\* columns by 20 rows, one above it.
Sizes == {<<40, 10>>, <<80, 24>>}

\* if m.width < 60 || m.height < 20
TooSmall(w, h) == w < 60 \/ h < 20

\* StartEnhancedWelcome: the module ids of the items, in list order.
MenuItems ==
    <<"01-osi-model", "02-tcp-ip", "03-subnetting", "04-routing",
      "05-k8s-networking", "06-cni", "07-service-mesh">>

MenuKeys == {"q", "enter", "j", "k"}

\* GetOSILayers: the layer numbers, in slice order.
Layers == <<7, 6, 5, 4, 3, 2, 1>>

\* NewModel: items[len(layers)-1-i] = listItem{layer: layers[i]}; the layer
\* of the list item at index i (from 0).
ItemLayer(i) == Layers[Len(Layers) - i]

\* getDetailContent: the text of the detail pane, which opens with the title
\* line "Layer <number>: <name>" of the layer it is given.
getDetailContent(layer) == <<"Layer", layer>>

\* viewport.SetContent as the explorer calls it: the lines are replaced and
\* YOffset is kept (the library moves it only when it lies beyond the last
\* line, and every detail text is longer than MaxScroll positions).
SetContent(v, content) == [v EXCEPT !.content = content]

\* list.Update for a key: the cursor keys move the selection within the
\* items, home goes to the first item, other keys leave it.
listUpdate(i, k) ==
    CASE k = "j" -> IF i < Len(Layers) - 1 THEN i + 1 ELSE i
      [] k = "k" -> IF i > 0 THEN i - 1 ELSE i
      [] k = "home" -> 0
      [] OTHER -> i

\* viewport.Update for a key or a mouse wheel event: one position down or up
\* within the content.
viewportUpdate(v, k) ==
    CASE k \in {"space", "wheeldown"} ->
             [v EXCEPT !.YOffset = IF v.YOffset < MaxScroll THEN v.YOffset + 1 ELSE v.YOffset]
      [] k \in {"ctrl+u", "wheelup"} ->
             [v EXCEPT !.YOffset = IF v.YOffset > 0 THEN v.YOffset - 1 ELSE v.YOffset]
      [] OTHER -> v

ExplorerKeys == {"q", "m", "v", "j", "k", "home", "space", "ctrl+u", "x"}
MouseEvents == {"wheeldown", "wheelup"}

menuVars == <<menuIndex, choice>>
explorerVars == <<listIndex, selectedLayer, showMnemonic, vp, advanceToLab, openedAt>>

\* netlab start: StartEnhancedWelcome has built the menu (width minWidth = 80,
\* height 30); no other screen exists yet.
NavInit ==
    /\ WalkInit /\ scriptExists /\ ~artifact
    /\ ClsRest /\ GateRest /\ LabRest
    /\ screen = "Menu"
    /\ width = 80 /\ height = 30 /\ ready = FALSE
    /\ menuIndex = 0 /\ choice = "" /\ quitting = FALSE
    /\ listIndex = 0 /\ selectedLayer = 7 /\ showMnemonic = FALSE
    /\ vp = [content |-> << >>, YOffset |-> 0]
    /\ advanceToLab = FALSE
    /\ openedAt = NotOpened
    /\ navEvent = NavEvent("start", "none")

\* enhancedModel.Update, tea.KeyMsg.  Enter ends the menu with the chosen id
\* and the start command goes on to RunModuleWithDependencyCheck, whose first
\* probe begins; the quit keys end the program.
MenuKey(k) ==
    /\ screen = "Menu"
    /\ CASE k = "q" ->
              /\ quitting' = TRUE
              /\ screen' = "Ended"
              /\ UNCHANGED <<menuVars, width, height, gateVars>>
         [] k = "enter" ->
              /\ choice' = MenuItems[menuIndex + 1]
              /\ screen' = "Gate"
              /\ width' = 0 /\ height' = 0
              /\ moduleID' = MenuItems[menuIndex + 1]
              /\ probes' = << Probe("initial", "running", << >>) >>
              /\ ctl' = "probing"
              /\ gateEvent' = GateEvent("start", "none")
              /\ UNCHANGED <<menuIndex, quitting, dependencies, missingDeps, allGood,
                             showingGuide, guideContent, selectedButton, result, done, uname>>
         [] k = "j" ->
              /\ menuIndex' = IF menuIndex < Len(MenuItems) - 1 THEN menuIndex + 1 ELSE menuIndex
              /\ UNCHANGED <<choice, quitting, screen, width, height, gateVars>>
         [] k = "k" ->
              /\ menuIndex' = IF menuIndex > 0 THEN menuIndex - 1 ELSE menuIndex
              /\ UNCHANGED <<choice, quitting, screen, width, height, gateVars>>
    /\ navEvent' = NavEvent("menuKey", k)
    /\ UNCHANGED <<walkVars, cls, labVars, ready, explorerVars>>

\* enhancedModel.Update, tea.WindowSizeMsg
MenuResize(sz) ==
    /\ screen = "Menu"
    /\ width' = sz[1] /\ height' = sz[2]
    /\ navEvent' = NavEvent("resize", "none")
    /\ UNCHANGED <<walkVars, cls, gateVars, labVars, screen, ready, menuVars, quitting,
                   explorerVars>>

\* dependencyCheckModel.Update, tea.WindowSizeMsg
GateResize(sz) ==
    /\ screen = "Gate" /\ ctl = "gate" /\ ~done
    /\ width' = sz[1] /\ height' = sz[2]
    /\ gateEvent' = GateEvent("resize", "none")
    /\ UNCHANGED <<walkVars, cls, labVars, screen, ready, menuVars, quitting, explorerVars,
                   navEvent, moduleID, dependencies, missingDeps, allGood, showingGuide,
                   guideContent, selectedButton, result, done, probes, ctl, uname>>

\* The gate's program and its controller, while the gate is the screen.
GateStep == screen = "Gate" /\ GateNext

\* runModuleImplementation for the OSI module: osimodel.Run builds NewModel
\* and starts its program.  The gate's model is not used again.
RunExplorer ==
    /\ screen = "Gate" /\ ctl = "content"
    /\ screen' = "Explorer"
    /\ width' = 0 /\ height' = 0 /\ ready' = FALSE
    /\ quitting' = FALSE
    /\ listIndex' = 0 /\ selectedLayer' = Layers[1] /\ showMnemonic' = FALSE
    /\ vp' = [content |-> << >>, YOffset |-> 0]
    /\ advanceToLab' = FALSE
    /\ openedAt' = NotOpened
    /\ moduleID' = "none" /\ dependencies' = << >> /\ missingDeps' = << >>
    /\ allGood' = TRUE /\ showingGuide' = FALSE /\ guideContent' = << >>
    /\ selectedButton' = 0 /\ result' = "CheckContinue" /\ done' = FALSE
    /\ probes' = << >> /\ ctl' = "rest"
    /\ gateEvent' = GateEvent("rest", "none")
    /\ navEvent' = NavEvent("run", "none")
    /\ UNCHANGED <<walkVars, cls, labVars, menuVars, uname>>

\* RunModuleWithDependencyCheck returns without a content screen: nil after
\* Abort, an error otherwise; the start command ends.
GateReturn ==
    /\ screen = "Gate" /\ ctl \in {"returnedNil", "returnedErr"}
    /\ screen' = "Ended"
    /\ navEvent' = NavEvent("return", ctl)
    /\ UNCHANGED <<walkVars, cls, gateVars, labVars, width, height, ready, menuVars, quitting,
                   explorerVars>>

\* Model.Update, tea.WindowSizeMsg.  Below the floor only the size is stored;
\* otherwise the viewport is made or resized and control falls through to the
\* end of Update: list.Update, updateSelectedLayer, SetContent.
ExplorerResize(sz) ==
    /\ screen = "Explorer"
    /\ width' = sz[1] /\ height' = sz[2]
    /\ IF TooSmall(sz[1], sz[2])
       THEN UNCHANGED <<ready, selectedLayer, vp>>
       ELSE /\ ready' = TRUE
            /\ selectedLayer' = ItemLayer(listIndex)
            /\ vp' = SetContent(SetContent(vp, getDetailContent(selectedLayer)),
                                getDetailContent(ItemLayer(listIndex)))
    /\ navEvent' = NavEvent("resize", "none")
    /\ UNCHANGED <<walkVars, cls, gateVars, labVars, screen, menuVars, quitting, listIndex,
                   showMnemonic, advanceToLab, openedAt>>

\* Model.Update, tea.MouseMsg: forwarded to the viewport, whatever is shown.
\* Before the first adequate size the viewport has no content to scroll.
ExplorerMouse(e) ==
    /\ screen = "Explorer"
    /\ vp' = IF ready THEN viewportUpdate(vp, e) ELSE vp
    /\ navEvent' = NavEvent("mouse", e)
    /\ UNCHANGED <<walkVars, cls, gateVars, labVars, screen, width, height, ready, menuVars,
                   quitting, listIndex, selectedLayer, showMnemonic, advanceToLab, openedAt>>

\* The quit keys never leaving the explorer.
QuitClosesOverlay_Always == TRUE

\* case "ctrl+c", "q", "esc":  if m.showMnemonic
QuitClosesOverlay == showMnemonic

\* A key handler that leaves the detail pane as it was.
DetailAfterSelect_Stale(v, layer) == v

\* m.updateSelectedLayer(); m.viewport.SetContent(m.getDetailContent()): the
\* detail pane after a key that went through list.Update.
DetailAfterSelect(v, layer) == SetContent(v, getDetailContent(layer))

\* Model.Update, tea.KeyMsg.  After "v" the program ends with advanceToLab
\* set and Run goes on to RunWalkthrough: NewWalkthroughModel, and the script
\* and the capture file are as the file system has them.  The explorer's
\* model is not used again.
ExplorerKey(k) ==
    /\ screen = "Explorer"
    /\ CASE k = "q" /\ QuitClosesOverlay ->
              /\ showMnemonic' = FALSE
              /\ openedAt' = NotOpened
              /\ UNCHANGED <<screen, width, height, ready, quitting, listIndex, selectedLayer,
                             vp, advanceToLab, scriptExists, artifact>>
         [] k = "q" /\ ~QuitClosesOverlay ->
              /\ quitting' = TRUE
              /\ screen' = "Ended"
              /\ UNCHANGED <<width, height, ready, explorerVars, scriptExists, artifact>>
         [] k = "m" ->
              /\ showMnemonic' = ~showMnemonic
              /\ openedAt' = IF ~showMnemonic /\ ~TooSmall(width, height) /\ ready
                              THEN OpenedAt(listIndex, vp.YOffset)
                              ELSE NotOpened
              /\ UNCHANGED <<screen, width, height, ready, quitting, listIndex, selectedLayer,
                             vp, advanceToLab, scriptExists, artifact>>
         [] k = "v" ->
              /\ advanceToLab' = TRUE
              /\ screen' = "Workflow"
              /\ width' = 0 /\ height' = 0 /\ ready' = FALSE
              /\ scriptExists' \in BOOLEAN
              /\ artifact' \in BOOLEAN
              /\ listIndex' = 0 /\ selectedLayer' = Layers[1] /\ showMnemonic' = FALSE
              /\ vp' = [content |-> << >>, YOffset |-> 0]
              /\ openedAt' = NotOpened
              /\ UNCHANGED quitting
         [] k \in {"j", "k"} ->
              /\ listIndex' = listUpdate(listIndex, k)
              /\ selectedLayer' = ItemLayer(listUpdate(listIndex, k))
              /\ vp' = IF ready
                       THEN DetailAfterSelect(vp, ItemLayer(listUpdate(listIndex, k)))
                       ELSE vp
              /\ UNCHANGED <<screen, width, height, ready, quitting, showMnemonic, advanceToLab,
                             openedAt, scriptExists, artifact>>
         [] OTHER ->
              /\ listIndex' = listUpdate(listIndex, k)
              /\ selectedLayer' = ItemLayer(listUpdate(listIndex, k))
              /\ vp' = IF ready
                       THEN viewportUpdate(
                                DetailAfterSelect(vp, ItemLayer(listUpdate(listIndex, k))), k)
                       ELSE vp
              /\ UNCHANGED <<screen, width, height, ready, quitting, showMnemonic, advanceToLab,
                             openedAt, scriptExists, artifact>>
    /\ navEvent' = NavEvent("explorerKey", k)
    /\ UNCHANGED <<model, status, run, nRuns, quit, lastEvent, cls, gateVars, labVars, menuVars>>

\* len(getSamplePacketLayers())
NumPacketLayers == Len(getSamplePacketLayers)

\* case "n", "right", "space"
KeyN ==
    /\ screen = "Workflow" /\ ~quit
    /\ currentIdx' = IF currentIdx < Len(layers) - 1
                     THEN currentIdx + 1 ELSE currentIdx
    /\ lastEvent' = Event("key_n", 0, FALSE)
    /\ UNCHANGED <<model, status, run, nRuns, quit, env, cls, gateVars, navVars, exports, files,
                   layers>>

\* case "p", "left", "backspace"
KeyP ==
    /\ screen = "Workflow" /\ ~quit
    /\ currentIdx' = IF currentIdx > 0 THEN currentIdx - 1 ELSE currentIdx
    /\ lastEvent' = Event("key_p", 0, FALSE)
    /\ UNCHANGED <<model, status, run, nRuns, quit, env, cls, gateVars, navVars, exports, files,
                   layers>>

\* WalkthroughModel.Update, tea.WindowSizeMsg
WalkResize(sz) ==
    /\ screen = "Workflow" /\ ~quit
    /\ width' = sz[1] /\ height' = sz[2]
    /\ ready' = (ready \/ ~TooSmall(sz[1], sz[2]))
    /\ lastEvent' = Event("resize", 0, FALSE)
    /\ UNCHANGED <<model, status, run, nRuns, quit, env, cls, gateVars, labVars, screen, menuVars,
                   quitting, explorerVars, navEvent>>

\* The walkthrough's handlers and commands, while it is the screen.
WalkStep == screen = "Workflow" /\ Next /\ nRuns' <= LabRuns

NavNext ==
    \/ \E k \in MenuKeys : MenuKey(k)
    \/ \E sz \in Sizes : MenuResize(sz)
    \/ GateStep
    \/ \E sz \in Sizes : GateResize(sz)
    \/ RunExplorer
    \/ GateReturn
    \/ \E k \in ExplorerKeys : ExplorerKey(k)
    \/ \E e \in MouseEvents : ExplorerMouse(e)
    \/ \E sz \in Sizes : ExplorerResize(sz)
    \/ WalkStep
    \/ KeyN
    \/ KeyP
    \/ \E sz \in Sizes : WalkResize(sz)

NavSpec == NavInit /\ [][NavNext]_vars

-----------------------------------------------------------------------------
(* Views of the screens of netlab start *)

TooSmallMessage == [pane |-> "tooSmall", status |-> "resize"]

\* enhancedModel.View: the farewell once quitting, else the header, the list
\* and the help; the size only pads the layout.
MenuView ==
    IF quitting THEN [pane |-> "farewell", status |-> "none"]
    ELSE [pane |-> "menu", status |-> MenuItems[menuIndex + 1]]

\* dependencyCheckModel.View: the guide while showingGuide, else the check.
GateScreenView ==
    IF done THEN [pane |-> "none", status |-> "none"]
    ELSE IF showingGuide THEN [pane |-> "guide", status |-> "guide"]
    ELSE [pane |-> "gate", status |-> IF allGood THEN "AllGood" ELSE "Missing"]

\* Model.View
ExplorerView ==
    IF TooSmall(width, height) THEN TooSmallMessage
    ELSE IF ~ready THEN [pane |-> "initializing", status |-> "none"]
    ELSE IF showMnemonic THEN [pane |-> "mnemonic", status |-> "none"]
    ELSE [pane |-> "twoPane", status |-> vp.content]

\* WalkthroughModel.View
WalkthroughView ==
    IF TooSmall(width, height) THEN TooSmallMessage
    ELSE IF ~ready THEN [pane |-> "initializing", status |-> "none"]
    ELSE View

ScreenView ==
    CASE screen = "Menu" -> MenuView
      [] screen = "Gate" -> GateScreenView
      [] screen = "Explorer" -> ExplorerView
      [] screen = "Workflow" -> WalkthroughView
      [] OTHER -> [pane |-> "none", status |-> "none"]

\* The screen of the specification that the running program shows; the
\* explorer is in its overlay when View renders mnemonicView.
ActiveScreen ==
    CASE screen = "Menu" -> "Menu"
      [] screen = "Gate" -> "DependencyGate"
      [] screen = "Explorer" -> IF ExplorerView.pane = "mnemonic" THEN "MnemonicOverlay"
                                ELSE "ContentExplorer"
      [] screen = "Workflow" -> IF quit THEN "Quit" ELSE "ProcessWorkflow"
      [] OTHER -> "Quit"

-----------------------------------------------------------------------------
(* Navigation in the walkthrough *)

\* C30: in the walkthrough, a forward or backward navigation key pressed
\* while the lab is not ready (before any run, while a run is streaming, after
\* a failed run) leaves the current layer index unchanged.
C30_NavigationNeedsReady ==
    [][(screen = "Workflow" /\ lastEvent'.type \in {"key_n", "key_p"} /\ ~labReady)
          => currentIdx' = currentIdx]_vars

-----------------------------------------------------------------------------
(* Screens and their transitions *)

Screens == {"Menu", "DependencyGate", "ContentExplorer", "MnemonicOverlay", "ProcessWorkflow"}

AllowedTransitions ==
    {<<"Menu", "DependencyGate">>,
     <<"DependencyGate", "ContentExplorer">>,
     <<"ContentExplorer", "MnemonicOverlay">>,
     <<"MnemonicOverlay", "ContentExplorer">>,
     <<"ContentExplorer", "ProcessWorkflow">>}
    \cup {<<s, "Quit">> : s \in Screens}

\* C21: every change of the active screen is Menu to DependencyGate,
\* DependencyGate to ContentExplorer, ContentExplorer to MnemonicOverlay or
\* back, ContentExplorer to ProcessWorkflow, or a screen to Quit; the
\* walkthrough is never entered from the overlay or from the gate.
C21_ScreenTransitions ==
    [][ActiveScreen' # ActiveScreen
          => <<ActiveScreen, ActiveScreen'>> \in AllowedTransitions]_vars

\* A quit key pressed in the program that is running.
QuitPress ==
    \/ MenuKey("q")
    \/ screen = "Gate" /\ GateKey("q")
    \/ ExplorerKey("q")
    \/ screen = "Workflow" /\ KeyQuit

\* A program of netlab start is on the screen and takes keys.
Displayed ==
    \/ screen = "Menu"
    \/ screen = "Gate" /\ ctl = "gate" /\ ~done
    \/ screen = "Explorer"
    \/ screen = "Workflow" /\ ~quit

\* The remediation guide or the mnemonic overlay is open.
Overlaid ==
    \/ screen = "Gate" /\ ctl = "gate" /\ ~done /\ showingGuide
    \/ screen = "Explorer" /\ showMnemonic

\* The gate has ended with Abort: the controller returns nil and the start
\* command ends.
GateAborted == screen = "Gate" /\ ctl = "gate" /\ done /\ result = "CheckAbort"

\* tea.Quit has been returned for good, or the command has ended.
Terminated ==
    \/ screen = "Ended"
    \/ screen = "Workflow" /\ quit
    \/ GateAborted

\* C22: from every screen a finite sequence of quit keys ends the program:
\* with an overlay open one quit key closes it and leaves the screen
\* displayed, and without an overlay one quit key ends the program (from the
\* walkthrough in any phase of a run); after Abort the gate's controller
\* returns and the command ends.
C22_QuitReachable ==
    /\ (Displayed /\ Overlaid) => ENABLED (QuitPress /\ Displayed' /\ ~Overlaid')
    /\ (Displayed /\ ~Overlaid) => ENABLED (QuitPress /\ Terminated')
    /\ GateAborted => ENABLED (ControllerStep /\ ctl' = "returnedNil")
    /\ (screen = "Gate" /\ ctl = "returnedNil") => ENABLED (GateReturn /\ screen' = "Ended")

\* The quit key has ended the walkthrough while a run was streaming.
C22_Witness ==
    /\ screen = "Workflow" /\ quit
    /\ lastEvent.type = "key_q"
    /\ \E r \in Runs : run[r].phase = "Streaming"

-----------------------------------------------------------------------------
(* The explorer's list and detail pane *)

\* The explorer renders its two panes.
TwoPane == screen = "Explorer" /\ ExplorerView.pane = "twoPane"

\* C23: whenever the explorer renders its two panes, the detail pane holds
\* the details of the layer selected in the list, and selectedLayer is that
\* layer.
C23_ListDetailSync ==
    TwoPane => /\ vp.content = getDetailContent(ItemLayer(listIndex))
               /\ selectedLayer = ItemLayer(listIndex)

\* Two panes shown after the selection was moved and the pane scrolled.
C23_Witness ==
    /\ TwoPane
    /\ listIndex = 2 /\ vp.YOffset > 0
    /\ navEvent.type = "resize"

\* C24: a key press in the explorer that changes the list selection
\* regenerates the detail pane for the new selection and puts its scroll
\* offset at 0.
C24_SelectionResetsScroll ==
    [][(screen = "Explorer" /\ ready /\ navEvent'.type = "explorerKey"
          /\ screen' = "Explorer" /\ listIndex' # listIndex)
          => /\ vp'.content = getDetailContent(ItemLayer(listIndex'))
             /\ vp'.YOffset = 0]_vars

\* C25: a close key (m, or q / esc / ctrl+c) pressed while the mnemonic
\* overlay is shown returns to the explorer, does not quit, and leaves the
\* list selection and the scroll offset that were in effect when the overlay
\* was opened.
C25_OverlayCloseRestores ==
    [][(screen = "Explorer" /\ ExplorerView.pane = "mnemonic" /\ openedAt.open
          /\ navEvent'.type = "explorerKey" /\ navEvent'.key \in {"m", "q"})
          => /\ screen' = "Explorer" /\ ~showMnemonic' /\ ~quitting'
             /\ listIndex' = openedAt.listIndex
             /\ vp'.YOffset = openedAt.YOffset]_vars

-----------------------------------------------------------------------------
(* Minimum terminal size *)

\* The step handles a tea.WindowSizeMsg with a size below the floor.
ResizedBelowFloor ==
    /\ TooSmall(width', height')
    /\ \/ screen \in {"Menu", "Explorer"} /\ navEvent'.type = "resize"
       \/ screen = "Gate" /\ gateEvent'.type = "resize"
       \/ screen = "Workflow" /\ lastEvent'.type = "resize"

\* C26: after a resize below the floor, the screen that is running renders
\* the "terminal too small" message.
C26_TooSmallEverywhere ==
    [][ResizedBelowFloor => ScreenView' = TooSmallMessage]_vars

-----------------------------------------------------------------------------
(* The not-finished branch of case labOutputMsg, driven line by line *)

\* Lines delivered in not-finished messages: without a marker, blank, and
\* with the markers of 5, 40, 90 and 100.
ProgressLines ==
    { <<"hello">>, Blank, <<"Checking", "Docker">>, <<"deploying", "nginx">>,
      <<"making", "http", "request">>, <<"lab", "setup", "completed">> }

\* A setup run whose start message has been handled and whose script runs.
ProgressInit ==
    /\ scriptExists = TRUE /\ artifact = FALSE
    /\ labReady = FALSE /\ labRunning = TRUE /\ labError = Blank
    /\ labProgress = 0
    /\ labOutput = StartLines(SetupStartLine)
    /\ showLabSetup = TRUE
    /\ quit = FALSE
    /\ status = [pc |-> "done", ready |-> FALSE]
    /\ run = [r \in Runs |-> IF r = 1
                             THEN [Launch("setup") EXCEPT !.pc = "child", !.spawned = TRUE]
                             ELSE IdleRun]
    /\ nRuns = 1
    /\ lastEvent = Event("stream", 1, FALSE)
    /\ ClsRest /\ GateRest /\ NavRest /\ LabRest

\* A labOutputMsg with finished false and one line of output reaches Update
\* while the script runs.
StreamedLine(r) ==
    /\ ~quit
    /\ run[r].pc = "child"
    /\ run[r].lineEvents < MaxStreamed
    /\ \E line \in ProgressLines :
          run' = [run EXCEPT ![r].pc = "msg",
                             ![r].msg = LabOutputMsg(<<line>>, 0, FALSE, Blank, FALSE)]
    /\ lastEvent' = Event("streamedLine", r, FALSE)
    /\ UNCHANGED <<model, quit, status, nRuns, env, others>>

ProgressNext ==
    \/ \E r \in Runs : StreamedLine(r)
    \/ \E r \in Runs : UpdateLabOutputMsg(r)
    \/ \E r \in Runs : ChildExit(r)

ProgressSpec == ProgressInit /\ [][ProgressNext]_vars

\* The message being handled is not finished and none of its non-blank lines
\* holds a progress marker.
UnmarkedLines(r) ==
    /\ run[r].pc = "msg" /\ ~run[r].msg.finished
    /\ \A i \in DOMAIN run[r].msg.output :
          parseProgressFromOutput(run[r].msg.output[i]) = 0

\* C31: the progress value is between 0 and 100 in every state, and handling
\* a streamed message whose lines match no progress marker leaves the
\* progress value unchanged.
C31_ProgressRange ==
    /\ [](labProgress \in 0..100)
    /\ [][\A r \in Runs :
             (UnmarkedLines(r) /\ lastEvent' = Event("labOutputMsg", r, FALSE))
             => labProgress' = labProgress]_vars

\* A line without a marker has been handled while the progress stood at 40.
C31_Witness ==
    /\ lastEvent = Event("labOutputMsg", 1, FALSE)
    /\ run[1].pc = "child" /\ run[1].lineEvents = 2
    /\ labProgress = 40
    /\ labOutput[Len(labOutput)] = <<"hello">>

-----------------------------------------------------------------------------
(* The gate's focus, guide and result *)

\* C32: while the gate runs, the focused index designates one of the buttons
\* that renderButtons draws: at most 1 when allGood, at most 2 otherwise.
C32_FocusOnRenderedButton ==
    (ctl = "gate" /\ ~done) => selectedButton + 1 \in DOMAIN renderButtons

\* C33: while the gate shows the guide, some tool is unsatisfied and the guide
\* text is the one for the current unsatisfied list, also after the result of
\* a recheck has arrived.
C33_GuideOnlyWhileUnsatisfied ==
    (ctl = "gate" /\ ~done /\ showingGuide)
        => /\ ~allGood
           /\ guideContent = GetInstallationGuide(missingDeps, uname)

\* C34: the gate's program ends only by a quit key, with result Abort, or by
\* Enter on Continue, with result Continue, whatever rechecks came before; so
\* the controller never receives Recheck or ShowGuide.
C34_GateEndsContinueOrAbort ==
    [][/\ (ctl = "gate" /\ ~done /\ done')
            => \/ gateEvent' = GateEvent("key", "Abort") /\ result' = "CheckAbort"
               \/ gateEvent' = GateEvent("enter", "Continue") /\ result' = "CheckContinue"
       /\ gateEvent'.type = "controller"
            => gateEvent'.action \in {"CheckContinue", "CheckAbort"}]_vars

\* The gate has ended by a quit key pressed after a recheck was started.
C34_Witness ==
    /\ ctl = "gate" /\ done
    /\ gateEvent = GateEvent("key", "Abort")
    /\ result = "CheckAbort"
    /\ \E i \in DOMAIN probes : probes[i].kind = "recheck"

-----------------------------------------------------------------------------
(* Lab readiness *)

\* C35: lab readiness turns from false to true only when the initial status
\* check found the capture file or a setup run has succeeded; handling the
\* finished message of a cleanup run never turns it true and never appends
\* the "Lab setup completed" line.
C35_ReadyOnlyBySetup ==
    [][/\ (~labReady /\ labReady')
            => \/ lastEvent'.type = "labStatusMsg" /\ status.ready
               \/ \E r \in Runs : Finishing(r) /\ run[r].mode = "setup" /\ run[r].msg.success
       /\ \A r \in Runs :
            (Finishing(r) /\ run[r].mode = "cleanup")
            => /\ labReady' => labReady
               /\ ~InSeq(SuccessLine, Added)]_vars

-----------------------------------------------------------------------------
(* Modules of the menu *)

\* C36: for every module of the menu, the controller's step after Continue
\* was chosen at the gate starts the module's content screen or returns
\* without error.
C36_ContinueNeverFails ==
    [][(screen = "Gate" /\ choice \in {MenuItems[i] : i \in DOMAIN MenuItems}
          /\ gateEvent' = GateEvent("controller", "CheckContinue"))
          => ctl' \in {"content", "returnedNil"}]_vars

-----------------------------------------------------------------------------
(* The current layer of the walkthrough *)

\* C37: in the walkthrough the current layer index is at least 0 and less than
\* the number of layers in every reachable state, whatever forward and
\* backward keys were pressed and whatever reloads of the layers the status
\* message and the finished run caused.
C37_IndexInRange ==
    screen = "Workflow" => (currentIdx >= 0 /\ currentIdx < Len(layers))

\* The last layer is current when a finished, successful run reloads the layers.
C37_Witness ==
    /\ screen = "Workflow"
    /\ currentIdx = Len(layers) - 1 /\ currentIdx > 0
    /\ \E r \in Runs : /\ lastEvent = Event("labOutputMsg", r, FALSE)
                       /\ run[r].pc = "done" /\ run[r].mode = "setup"
    /\ labReady /\ artifact

-----------------------------------------------------------------------------
(* Entry to the explorer *)

\* C38: on entry to the explorer the item at the top of the list, which is
\* the selected one, is Layer 7 and the selected layer is Layer 7; and at the
\* first size that lets the two panes be drawn, with the selection still on
\* the top item, the selected layer is Layer 7 and the detail pane holds the
\* details of Layer 7.
C38_EntryShowsLayer7 ==
    [][/\ (screen = "Gate" /\ screen' = "Explorer")
            => /\ listIndex' = 0
               /\ ItemLayer(0) = 7
               /\ selectedLayer' = 7
       /\ (screen = "Explorer" /\ ~ready /\ ready' /\ listIndex' = 0 /\ TwoPane')
            => /\ selectedLayer' = 7
               /\ vp'.content = getDetailContent(7)]_vars

\* The part of C38 about the first normal render alone.
FirstRenderShowsLayer7 ==
    [][(screen = "Explorer" /\ ~ready /\ ready' /\ listIndex' = 0 /\ TwoPane')
            => /\ selectedLayer' = 7
               /\ vp'.content = getDetailContent(7)]_vars

=============================================================================
